---------------------------- MODULE Spec2Model ----------------------------
(***************************************************************************)
(* ComputeRaft (src/src/compute_raft.rs): the consensused transaction pool, *)
(* the UTXO tracker, the block-stored vote accumulator, the in-flight       *)
(* proposal accounting and the block assembly of a compute node.            *)
(*                                                                          *)
(* A Transaction is known to this code only by its hash (the map key) and   *)
(* by the previous-out hashes of its inputs: [inputs |-> <<hash, ...>>].    *)
(* A BTreeMap<String, Transaction> is a function from hashes (naturals, in  *)
(* key order) to transactions; Option<T> is a sequence of length 0 or 1.    *)
(***************************************************************************)
EXTENDS Integers, Sequences, FiniteSets, TLC

VARIABLES
    compute_nodes, \* config.compute_nodes.len(): the size of the cluster
    node,          \* node[n]: the ComputeRaft struct of replica n
    commit_queue,  \* commit_queue[n]: committed RaftData that follower n has yet to take
    raft_pending,  \* RaftData handed to propose_data and not yet committed
    signal,        \* signal[n]: value returned by n's latest received_commit
    panicked,      \* panicked[n]: an unwrap() of n failed
    arg,           \* a call of one function on its own: Option of its arguments
    out            \* that call: Option of what it returned

vars == <<compute_nodes, node, commit_queue, raft_pending, signal, panicked, arg, out>>

-----------------------------------------------------------------------------
(* Bounds of the model *)

MaxPeers == 3        \* largest cluster size drawn for peers_len
MaxQueue == 1        \* capacity of the committed-payload channel
MaxProposals == 3    \* cap on proposed_last_id of a replica
MaxDruid == 1        \* cap on the droplets committed and not yet assembled
MaxBlockNum == 0     \* highest block_num a BlockStoredInfo carries
MaxStaged == 1       \* cap on what a node holds locally for its next proposals
MaxInputs == 2       \* a call on its own: inputs of a drawn transaction
MaxOutputs == 3      \* a call on its own: hashes a drawn input may name
MaxTxs == 3          \* a call on its own: drawn candidate transactions
MaxDroplets == 2     \* a call on its own: droplets of the drawn tx_druid_pool
MaxPoolCap == 4      \* pool cycles: highest proposed_and_consensused_tx_pool_len_max
MaxProposeLen == 3   \* pool cycles: highest proposed_tx_pool_len_max
MaxLocalTxs == 6     \* pool cycles: transactions staged in local_tx_pool
MaxCommittedTxs == 2 \* pool cycles: transactions in tx_pool from earlier commits
MaxCycles == 3       \* pool cycles: propose/commit cycles of a run
MaxDruidStaged == 3  \* droplets: those staged in a run, and tx_druid_pool before a foreign commit
MaxExtraLen == 3     \* admission test: largest extra_len asked about

(* Program constants *)

BLOCK_SIZE_IN_TX == 2    \* crate::constants, scaled down
TX_POOL_LIMIT == 5       \* crate::constants, scaled down
SelfPeerId == 1          \* raft_active.peer_id() of the replica under study
FollowerPeerId == 2      \* peer_id of a second replica of the cluster

-----------------------------------------------------------------------------
(* Option, BTreeMap and Vec helpers *)

None == <<>>
Some(x) == <<x>>
IsSome(o) == o /= <<>>
IsNone(o) == o = <<>>
Unwrap(o) == o[1]

\* A u64 written in base 65536: its four digits, the most significant first.
\* U64Digits(x) is the numeral of a natural x below 2^31.
U64Digits(x) == <<0, 0, x \div 65536, x % 65536>>

\* The cast that saturates at u32::MAX.
as_u32_saturating(digits) ==
    IF digits[1] = 0 /\ digits[2] = 0 THEN <<digits[3], digits[4]>>
    ELSE <<65535, 65535>>

\* `x as u32` of a u64 on the numerals: the low 32 bits.
as_u32(digits) == <<digits[3], digits[4]>>

\* `x as u32` of a u64 x below 2^31, as a natural.
AsU32(x) == LET low == as_u32(U64Digits(x)) IN low[1] * 65536 + low[2]

Min(a, b) == IF a < b THEN a ELSE b
SaturatingSub(a, b) == IF a > b THEN a - b ELSE 0
Range(s) == {s[i] : i \in DOMAIN s}

EmptyMap == <<>>
MapLen(m) == Cardinality(DOMAIN m)
MapRestrict(m, S) == [k \in S |-> m[k]]
MapRemove(m, k) == [x \in DOMAIN m \ {k} |-> m[x]]
\* BTreeMap::append(&mut self, other): entries of other replace those of self.
MapAppend(m, other) ==
    [k \in DOMAIN m \cup DOMAIN other |-> IF k \in DOMAIN other THEN other[k] ELSE m[k]]

RECURSIVE SortedSeq(_)
SortedSeq(S) ==
    IF S = {} THEN <<>>
    ELSE LET lo == CHOOSE x \in S : \A y \in S : x <= y
         IN <<lo>> \o SortedSeq(S \ {lo})

\* BTreeMap::keys(): the keys in ascending order.
SortedKeys(m) == SortedSeq(DOMAIN m)

RECURSIVE SetCode(_)
SetCode(S) ==
    IF S = {} THEN 0
    ELSE LET x == CHOOSE y \in S : TRUE IN 2 ^ x + SetCode(S \ {x})

\* Transaction::new(): no inputs.
NewTransaction == [inputs |-> <<>>]

\* Block::new(): default header, no transactions.
NewBlock == [header |-> [time |-> 0, previous_hash |-> None, b_num |-> 0],
             transactions |-> <<>>]

RECURSIVE InputsOfKeys(_, _)
InputsOfKeys(txs, keys) ==
    IF keys = <<>> THEN <<>>
    ELSE txs[Head(keys)].inputs \o InputsOfKeys(txs, Tail(keys))

\* get_inputs_previous_out_hash(txs.values()): the previous-out hashes of the
\* inputs of the transactions, in key order and input order.
get_inputs_previous_out_hash(txs) == InputsOfKeys(txs, SortedKeys(txs))

\* take_first_n that also takes the entry it should split at.
take_first_n_inclusive(n, from) ==
    LET keys == SortedKeys(from)
    IN IF Len(keys) > n
       THEN LET max_key == keys[n + 1]
            IN [result |-> MapRestrict(from, {k \in DOMAIN from : k <= max_key}),
                from |-> MapRestrict(from, {k \in DOMAIN from : k > max_key})]
       ELSE [result |-> from, from |-> EmptyMap]

\* take_first_n(n, from): [result, from] after the call.
take_first_n(n, from) ==
    LET keys == SortedKeys(from)
    IN IF Len(keys) > n
       THEN LET max_key == keys[n + 1]
            IN [result |-> MapRestrict(from, {k \in DOMAIN from : k < max_key}),
                from |-> MapRestrict(from, {k \in DOMAIN from : k >= max_key})]
       ELSE [result |-> from, from |-> EmptyMap]

-----------------------------------------------------------------------------
(* impl ComputeConsensused.  `c` is the struct; an operator that mutates it  *)
(* yields the struct after the call.                                         *)

\* ClaimInputs that keeps what a rejected transaction had claimed.
RECURSIVE ClaimInputs_no_roll_back(_, _, _, _, _)
ClaimInputs_no_roll_back(utxo_set, ins, i, removed_all, removed_roll_back) ==
    IF i > Len(ins) THEN [valid |-> TRUE, removed_all |-> removed_all]
    ELSE IF ins[i] \in DOMAIN utxo_set /\ ins[i] \notin removed_all
         THEN ClaimInputs_no_roll_back(utxo_set, ins, i + 1, removed_all \cup {ins[i]},
                                       Append(removed_roll_back, ins[i]))
         ELSE [valid |-> FALSE, removed_all |-> removed_all]

\* Inner loop of find_invalid_new_txs over the inputs of one transaction:
\* claims each input in removed_all, or rolls back what it claimed.
RECURSIVE ClaimInputs(_, _, _, _, _)
ClaimInputs(utxo_set, ins, i, removed_all, removed_roll_back) ==
    IF i > Len(ins) THEN [valid |-> TRUE, removed_all |-> removed_all]
    ELSE IF ins[i] \in DOMAIN utxo_set /\ ins[i] \notin removed_all
         THEN ClaimInputs(utxo_set, ins, i + 1, removed_all \cup {ins[i]},
                          Append(removed_roll_back, ins[i]))
         ELSE [valid |-> FALSE,
               removed_all |-> removed_all \ Range(removed_roll_back)]

\* Outer loop of find_invalid_new_txs over new_txs.iter() (key order).
RECURSIVE FindInvalidLoop(_, _, _, _, _)
FindInvalidLoop(utxo_set, new_txs, keys, removed_all, invalid) ==
    IF keys = <<>> THEN invalid
    ELSE LET r == ClaimInputs(utxo_set, new_txs[Head(keys)].inputs, 1, removed_all, <<>>)
         IN FindInvalidLoop(utxo_set, new_txs, Tail(keys), r.removed_all,
                            IF r.valid THEN invalid ELSE Append(invalid, Head(keys)))

\* find_invalid_new_txs that lets a candidate spend the output of another
\* candidate of new_txs.
find_invalid_new_txs_own_outputs(utxo_set, new_txs) ==
    FindInvalidLoop(MapAppend(utxo_set, new_txs), new_txs, SortedKeys(new_txs), {}, <<>>)

\* The Vec of invalid hashes, in key order.
find_invalid_new_txs(utxo_set, new_txs) ==
    FindInvalidLoop(utxo_set, new_txs, SortedKeys(new_txs), {}, <<>>)

\* self.utxo_set.remove(hash).unwrap() for each hash of `hashes`, in order.
RECURSIVE RemoveInputs(_, _, _)
RemoveInputs(utxo_set, hashes, panic) ==
    IF hashes = <<>> THEN [utxo_set |-> utxo_set, panic |-> panic]
    ELSE IF Head(hashes) \in DOMAIN utxo_set
         THEN RemoveInputs(MapRemove(utxo_set, Head(hashes)), Tail(hashes), panic)
         ELSE [utxo_set |-> utxo_set, panic |-> TRUE]

\* The state of a block assembly: the struct, the forming block, block_tx,
\* and whether an unwrap() failed.
Assembly(c, block, block_tx, panic) ==
    [c |-> c, block |-> block, block_tx |-> block_tx, panic |-> panic]

\* update_current_block_tx_with_given_valid_txs that leaves the spent outputs
\* in utxo_set.
update_current_block_tx_with_given_valid_txs_keep_inputs(a, txs) ==
    Assembly(a.c,
             [a.block EXCEPT !.transactions = @ \o SortedKeys(txs)],
             MapAppend(a.block_tx, txs),
             a.panic)

update_current_block_tx_with_given_valid_txs(a, txs) ==
    LET r == RemoveInputs(a.c.utxo_set, get_inputs_previous_out_hash(txs), a.panic)
    IN Assembly([a.c EXCEPT !.utxo_set = r.utxo_set],
                [a.block EXCEPT !.transactions = @ \o SortedKeys(txs)],
                MapAppend(a.block_tx, txs),
                r.panic)

\* DdeStep that admits the valid transactions of a droplet and drops the rest.
DdeStep_valid_part(a, txs) ==
    update_current_block_tx_with_given_valid_txs(
        a, MapRestrict(txs, DOMAIN txs \ Range(find_invalid_new_txs(a.c.utxo_set, txs))))

\* One iteration of the loop of update_committed_dde_tx over a droplet.
DdeStep(a, txs) ==
    IF find_invalid_new_txs(a.c.utxo_set, txs) /= <<>>
    THEN a
    ELSE update_current_block_tx_with_given_valid_txs(a, txs)

RECURSIVE DdeLoop(_, _)
DdeLoop(a, droplets) ==
    IF droplets = <<>> THEN a
    ELSE DdeLoop(DdeStep(a, Head(droplets)), Tail(droplets))

update_committed_dde_tx(a) ==
    DdeLoop([a EXCEPT !.c.tx_druid_pool = <<>>], a.c.tx_druid_pool)

\* update_current_block_tx that fills the block up to BLOCK_SIZE_IN_TX
\* transactions, those of the droplets included.
update_current_block_tx_count_droplets(a) ==
    LET invalid == Range(find_invalid_new_txs(a.c.utxo_set, a.c.tx_pool))
        cleaned == MapRestrict(a.c.tx_pool, DOMAIN a.c.tx_pool \ invalid)
        taken == take_first_n(SaturatingSub(BLOCK_SIZE_IN_TX, Len(a.block.transactions)),
                              cleaned)
    IN update_current_block_tx_with_given_valid_txs(
           [a EXCEPT !.c.tx_pool = taken.from], taken.result)

\* update_current_block_tx that fills the block from tx_pool as it is.
update_current_block_tx_keep_invalid(a) ==
    LET taken == take_first_n(BLOCK_SIZE_IN_TX, a.c.tx_pool)
    IN update_current_block_tx_with_given_valid_txs(
           [a EXCEPT !.c.tx_pool = taken.from], taken.result)

\* update_current_block_tx that selects the first BLOCK_SIZE_IN_TX
\* transactions of tx_pool and cleans the selection only.
update_current_block_tx_clean_selected(a) ==
    LET taken == take_first_n(BLOCK_SIZE_IN_TX, a.c.tx_pool)
        invalid == Range(find_invalid_new_txs(a.c.utxo_set, taken.result))
    IN update_current_block_tx_with_given_valid_txs(
           [a EXCEPT !.c.tx_pool = taken.from],
           MapRestrict(taken.result, DOMAIN taken.result \ invalid))

update_current_block_tx(a) ==
    LET invalid == Range(find_invalid_new_txs(a.c.utxo_set, a.c.tx_pool))
        cleaned == MapRestrict(a.c.tx_pool, DOMAIN a.c.tx_pool \ invalid)
        taken == take_first_n(BLOCK_SIZE_IN_TX, cleaned)
    IN update_current_block_tx_with_given_valid_txs(
           [a EXCEPT !.c.tx_pool = taken.from], taken.result)

update_block_header(a) ==
    LET previous_hash == a.c.tx_current_block_previous_hash
        b_num == a.c.tx_current_block_num
    IN IF IsNone(previous_hash) \/ IsNone(b_num)
       THEN [a EXCEPT !.c.tx_current_block_previous_hash = None, !.panic = TRUE]
       ELSE [a EXCEPT !.c.tx_current_block_previous_hash = None,
                      !.block.header = [time |-> AsU32(Unwrap(b_num)),
                                        previous_hash |-> Some(Unwrap(previous_hash)),
                                        b_num |-> Unwrap(b_num)]]

\* set_committed_mining_block that stores the block and leaves utxo_set alone.
set_committed_mining_block_store_only(c, block, block_tx) ==
    [c EXCEPT !.current_block = Some(block),
              !.current_block_tx = block_tx]

set_committed_mining_block(c, block, block_tx) ==
    [c EXCEPT !.utxo_set = MapAppend(@, block_tx),
              !.current_block = Some(block),
              !.current_block_tx = block_tx]

\* generate_block that fills the block from tx_pool before the droplets.
generate_block_pool_first(c) ==
    LET a == update_block_header(
                 update_committed_dde_tx(
                     update_current_block_tx(Assembly(c, NewBlock, EmptyMap, FALSE))))
    IN IF a.panic THEN [c |-> a.c, panic |-> TRUE]
       ELSE [c |-> set_committed_mining_block(a.c, a.block, a.block_tx), panic |-> FALSE]

\* generate_first_block that fills the first block from tx_pool.
generate_first_block_from_tx_pool(c) ==
    LET next_block_tx == c.tx_pool
        next_block == [NewBlock EXCEPT !.transactions = SortedKeys(next_block_tx)]
    IN [c |-> set_committed_mining_block(c, next_block, next_block_tx), panic |-> FALSE]

\* [c, panic]: the struct after the call, and whether an unwrap() in the call
\* failed (the thread then unwinds: c is meaningless).
generate_first_block(c) ==
    LET next_block_tx == c.utxo_set
        next_block == [NewBlock EXCEPT !.transactions = SortedKeys(next_block_tx)]
    IN [c |-> set_committed_mining_block(c, next_block, next_block_tx), panic |-> FALSE]

generate_block(c) ==
    LET a == update_block_header(
                 update_current_block_tx(
                     update_committed_dde_tx(Assembly(c, NewBlock, EmptyMap, FALSE))))
    IN IF a.panic THEN [c |-> a.c, panic |-> TRUE]
       ELSE [c |-> set_committed_mining_block(a.c, a.block, a.block_tx), panic |-> FALSE]

\* [block, block_tx, c, panic]
take_mining_block(c) ==
    [block |-> c.current_block,
     block_tx |-> c.current_block_tx,
     c |-> [c EXCEPT !.current_block = None, !.current_block_tx = EmptyMap],
     panic |-> IsNone(c.current_block)]

\* Check if computing the first block.
is_first_block(c) == IsNone(c.tx_current_block_num)

\* is_current_block that accepts every block_num once the first block is resolved.
is_current_block_any(c, block_num) == IsSome(c.tx_current_block_num)

\* Check if computing the given block.
is_current_block(c, block_num) ==
    IF IsSome(c.tx_current_block_num)
    THEN block_num = Unwrap(c.tx_current_block_num)
    ELSE FALSE

has_different_block_stored_info(c) == MapLen(c.current_block_stored_info) > 1

RECURSIVE MaxOf(_)
MaxOf(S) ==
    IF S = {} THEN 0
    ELSE LET x == CHOOSE y \in S : \A z \in S : y >= z IN x

\* max_agreeing_block_stored_info that counts the proposers of all payloads
\* together.
max_agreeing_block_stored_info_any_payload(c) ==
    Cardinality(UNION {c.current_block_stored_info[d].votes :
                          d \in DOMAIN c.current_block_stored_info})

\* values().map(|v| v.1.len()).max().unwrap_or(0)
max_agreeing_block_stored_info(c) ==
    MaxOf({Cardinality(c.current_block_stored_info[d].votes) :
              d \in DOMAIN c.current_block_stored_info})

\* has_block_stored_info_ready with the sufficient majority in both phases.
has_block_stored_info_ready_sufficient(c) ==
    max_agreeing_block_stored_info(c) >= c.sufficient_majority

has_block_stored_info_ready(c) ==
    LET threshold == IF is_first_block(c) THEN c.unanimous_majority
                     ELSE c.sufficient_majority
    IN max_agreeing_block_stored_info(c) >= threshold

AccFirstBlock(utxo_set) == [type |-> "FirstBlock", utxo_set |-> utxo_set]
AccBlock(info) == [type |-> "Block", info |-> info]

\* serialize(&block) followed by Sha3_256::digest: a collision-free map of the
\* vote's content to the key order of the accumulator (Vec<u8>, compared
\* bytewise): variant, then the fields.
VoteDigest(block) ==
    IF block.type = "FirstBlock"
    THEN 2 * SetCode(DOMAIN block.utxo_set)
    ELSE 2 * ((SetCode(DOMAIN block.info.mining_transactions) * 8
               + block.info.block_num) * 8 + block.info.block_hash) + 1

\* append_current_block_stored_info that forgets the votes for every other
\* payload.
append_current_block_stored_info_replace(c, key, block) ==
    LET block_hash == VoteDigest(block)
        old == IF block_hash \in DOMAIN c.current_block_stored_info
               THEN c.current_block_stored_info[block_hash]
               ELSE [info |-> block, votes |-> {}]
    IN [c EXCEPT !.current_block_stored_info =
            [d \in {block_hash} |-> [old EXCEPT !.votes = @ \cup {key.proposer_id}]]]

append_current_block_stored_info(c, key, block) ==
    LET block_hash == VoteDigest(block)
        old == IF block_hash \in DOMAIN c.current_block_stored_info
               THEN c.current_block_stored_info[block_hash]
               ELSE [info |-> block, votes |-> {}]
    IN [c EXCEPT !.current_block_stored_info =
            MapAppend(@, [d \in {block_hash} |->
                             [old EXCEPT !.votes = @ \cup {key.proposer_id}]])]

append_first_block_info(c, key, utxo_set) ==
    append_current_block_stored_info(c, key, AccFirstBlock(utxo_set))

append_block_stored_info(c, key, block) ==
    append_current_block_stored_info(c, key, AccBlock(block))

\* Iterator::max_by_key over the values in key order: the last of the values
\* with the most votes.
RECURSIVE MaxByVotes(_, _, _)
MaxByVotes(infos, keys, best) ==
    IF keys = <<>> THEN best
    ELSE LET v == infos[Head(keys)]
         IN MaxByVotes(infos, Tail(keys),
                       IF IsNone(best) \/ Cardinality(v.votes) >= Cardinality(Unwrap(best).votes)
                       THEN Some(v) ELSE best)

\* take_ready_block_stored_info that leaves the accumulator as it is.
take_ready_block_stored_info_keep(c) ==
    LET infos == c.current_block_stored_info
        best == MaxByVotes(infos, SortedKeys(infos), None)
    IN [info |-> IF IsSome(best) THEN Some(Unwrap(best).info) ELSE None,
        c |-> c,
        panic |-> IsNone(best)]

\* take_ready_block_stored_info that takes the payload of the lowest digest.
take_ready_block_stored_info_first_digest(c) ==
    LET infos == c.current_block_stored_info
        keys == SortedKeys(infos)
    IN [info |-> IF keys /= <<>> THEN Some(infos[keys[1]].info) ELSE None,
        c |-> [c EXCEPT !.current_block_stored_info = EmptyMap],
        panic |-> keys = <<>>]

\* [info, c, panic]: Option of the payload taken, and the struct with the
\* accumulator reset.
take_ready_block_stored_info(c) ==
    LET infos == c.current_block_stored_info
        best == MaxByVotes(infos, SortedKeys(infos), None)
    IN [info |-> IF IsSome(best) THEN Some(Unwrap(best).info) ELSE None,
        c |-> [c EXCEPT !.current_block_stored_info = EmptyMap],
        panic |-> IsNone(best)]

\* apply_ready_block_stored_info that takes the block number from the info
\* and leaves it there.
apply_ready_block_stored_info_same_num(c) ==
    LET t == take_ready_block_stored_info(c)
        info == Unwrap(t.info)
    IN IF t.panic THEN [c |-> t.c, panic |-> TRUE]
       ELSE IF info.type = "FirstBlock"
       THEN [c |-> [t.c EXCEPT !.tx_current_block_num = Some(0),
                               !.utxo_set = info.utxo_set],
             panic |-> FALSE]
       ELSE [c |-> [t.c EXCEPT !.tx_current_block_previous_hash = Some(info.info.block_hash),
                               !.tx_current_block_num = Some(info.info.block_num),
                               !.utxo_set = MapAppend(@, info.info.mining_transactions)],
             panic |-> FALSE]

apply_ready_block_stored_info(c) ==
    LET t == take_ready_block_stored_info(c)
        info == Unwrap(t.info)
    IN IF t.panic THEN [c |-> t.c, panic |-> TRUE]
       ELSE IF info.type = "FirstBlock"
       THEN [c |-> [t.c EXCEPT !.tx_current_block_num = Some(0),
                               !.utxo_set = info.utxo_set],
             panic |-> FALSE]
       ELSE [c |-> [t.c EXCEPT !.tx_current_block_previous_hash = Some(info.info.block_hash),
                               !.tx_current_block_num = Some(info.info.block_num + 1),
                               !.utxo_set = MapAppend(@, info.info.mining_transactions)],
             panic |-> FALSE]

-----------------------------------------------------------------------------
(* impl ComputeRaft.  `self` is the struct.                                  *)

RaftKey(proposer_id, proposal_id) ==
    [proposer_id |-> proposer_id, proposal_id |-> proposal_id]

ItemFirstBlock(utxo_set) == [type |-> "FirstBlock", utxo_set |-> utxo_set]
ItemBlock(info) == [type |-> "Block", info |-> info]
ItemTransactions(txs) == [type |-> "Transactions", txs |-> txs]
ItemDruidTransactions(droplets) == [type |-> "DruidTransactions", droplets |-> droplets]

\* bincode serialize(&(&key, item)) and deserialize::<(ComputeRaftKey,
\* ComputeRaftItem)>: bytes that decode to the pair, or bytes that do not.
Serialize(key, item) == [bytes |-> "pair", key |-> key, item |-> item]
Undecodable == [bytes |-> "other"]
Deserialize(raft_data) ==
    IF raft_data.bytes = "pair"
    THEN [ok |-> TRUE, key |-> raft_data.key, item |-> raft_data.item]
    ELSE [ok |-> FALSE]

\* NewConsensused with the sufficient majority set to the whole cluster.
NewConsensused_all(peers_len) ==
    [unanimous_majority |-> peers_len,
     sufficient_majority |-> peers_len,
     tx_pool |-> <<>>,
     tx_druid_pool |-> <<>>,
     tx_current_block_previous_hash |-> <<>>,
     tx_current_block_num |-> <<>>,
     current_block |-> <<>>,
     current_block_tx |-> <<>>,
     utxo_set |-> <<>>,
     current_block_stored_info |-> <<>>]

\* ComputeConsensused of ComputeRaft::new: the two majorities, the rest Default.
NewConsensused(peers_len) ==
    [unanimous_majority |-> peers_len,
     sufficient_majority |-> peers_len \div 2 + 1,
     tx_pool |-> EmptyMap,
     tx_druid_pool |-> <<>>,
     tx_current_block_previous_hash |-> None,
     tx_current_block_num |-> None,
     current_block |-> None,
     current_block_tx |-> EmptyMap,
     utxo_set |-> EmptyMap,
     current_block_stored_info |-> EmptyMap]

\* propose_item that numbers the proposal with the count of those in flight.
propose_item_in_flight_id(self, item) ==
    LET id == MapLen(self.proposed_in_flight) + 1
        key == RaftKey(self.peer_id, id)
        data == Serialize(key, item)
    IN [self |-> [self EXCEPT !.proposed_last_id = id,
                              !.proposed_in_flight =
                                  [k \in DOMAIN @ \cup {key} |->
                                      IF k = key THEN data ELSE @[k]]],
        data |-> <<data>>]

\* [self, data]: the struct after the call and the data passed to
\* raft_active.propose_data.
propose_item(self, item) ==
    LET id == self.proposed_last_id + 1
        key == RaftKey(self.peer_id, id)
        data == Serialize(key, item)
    IN [self |-> [self EXCEPT !.proposed_last_id = id,
                              !.proposed_in_flight =
                                  [k \in DOMAIN @ \cup {key} |->
                                      IF k = key THEN data ELSE @[k]]],
        data |-> <<data>>]

\* The struct built by ComputeRaft::new before propose_initial_uxto_set.
NewComputeRaft(peer_id, peers_len) ==
    [peer_id |-> peer_id,
     consensused |-> NewConsensused(peers_len),
     local_tx_pool |-> EmptyMap,
     local_tx_druid_pool |-> <<>>,
     last_block_stored_infos |-> <<>>,
     proposed_in_flight |-> EmptyMap,
     proposed_tx_pool_len |-> 0,
     proposed_tx_pool_len_max |-> BLOCK_SIZE_IN_TX \div peers_len,
     proposed_and_consensused_tx_pool_len_max |-> BLOCK_SIZE_IN_TX * 2,
     proposed_last_id |-> 0]

\* compute_seed_utxo mapped to (hash, Transaction::new()).
SeedUtxoSet(compute_seed_utxo) == [h \in compute_seed_utxo |-> NewTransaction]

propose_initial_uxto_set(self, utxo_set) == propose_item(self, ItemFirstBlock(utxo_set))

proposed_and_consensused_tx_pool_len(self) ==
    self.proposed_tx_pool_len + MapLen(self.consensused.tx_pool)

combined_tx_pool_len(self) ==
    MapLen(self.local_tx_pool) + proposed_and_consensused_tx_pool_len(self)

\* tx_pool_can_accept that refuses a pool filled to the limit.
tx_pool_can_accept_below_limit(self, extra_len) ==
    combined_tx_pool_len(self) + extra_len < TX_POOL_LIMIT

\* Whether adding these will grow our pool within the limit (&self: the
\* value returned).
tx_pool_can_accept(self, extra_len) ==
    combined_tx_pool_len(self) + extra_len <= TX_POOL_LIMIT

RECURSIVE ProposeBlocks(_, _, _)
ProposeBlocks(self, local_blocks, data) ==
    IF local_blocks = <<>> THEN [self |-> self, data |-> data]
    ELSE LET p == propose_item(self, ItemBlock(Head(local_blocks)))
         IN ProposeBlocks(p.self, Tail(local_blocks), data \o p.data)

\* propose_block_with_last_info that proposes the newest info first.
propose_block_with_last_info_newest_first(self) ==
    LET infos == self.last_block_stored_infos
    IN ProposeBlocks([self EXCEPT !.last_block_stored_infos = <<>>],
                     [i \in 1..Len(infos) |-> infos[Len(infos) + 1 - i]], <<>>)

propose_block_with_last_info(self) ==
    ProposeBlocks([self EXCEPT !.last_block_stored_infos = <<>>],
                  self.last_block_stored_infos, <<>>)

\* propose_local_transactions_at_timeout that proposes proposed_tx_pool_len_max
\* transactions whatever is proposed and consensused already.
propose_local_transactions_at_timeout_uncapped(self) ==
    LET t == take_first_n(self.proposed_tx_pool_len_max, self.local_tx_pool)
        taken == [self EXCEPT !.local_tx_pool = t.from]
    IN IF t.result /= EmptyMap
       THEN propose_item([taken EXCEPT !.proposed_tx_pool_len = @ + MapLen(t.result)],
                         ItemTransactions(t.result))
       ELSE [self |-> taken, data |-> <<>>]

propose_local_transactions_at_timeout(self) ==
    LET max_add == SaturatingSub(self.proposed_and_consensused_tx_pool_len_max,
                                 proposed_and_consensused_tx_pool_len(self))
        max_propose_len == Min(max_add, self.proposed_tx_pool_len_max)
        t == take_first_n(max_propose_len, self.local_tx_pool)
        taken == [self EXCEPT !.local_tx_pool = t.from]
    IN IF t.result /= EmptyMap
       THEN propose_item([taken EXCEPT !.proposed_tx_pool_len = @ + MapLen(t.result)],
                         ItemTransactions(t.result))
       ELSE [self |-> taken, data |-> <<>>]

propose_local_druid_transactions(self) ==
    LET txs == self.local_tx_druid_pool
        taken == [self EXCEPT !.local_tx_druid_pool = <<>>]
    IN IF txs /= <<>>
       THEN propose_item(taken, ItemDruidTransactions(txs))
       ELSE [self |-> taken, data |-> <<>>]

\* append_to_tx_pool that puts the transactions straight into the committed
\* pool.
append_to_tx_pool_consensused(self, transactions) ==
    [self EXCEPT !.consensused.tx_pool = MapAppend(@, transactions)]

append_to_tx_pool(self, transactions) ==
    [self EXCEPT !.local_tx_pool = MapAppend(@, transactions)]

append_to_tx_druid_pool(self, transactions) ==
    [self EXCEPT !.local_tx_druid_pool = Append(@, transactions)]

raft_append_block_stored_info(self, info) ==
    [self EXCEPT !.last_block_stored_infos = Append(@, info)]

\* A result of received_commit: the struct after the call, the Option returned
\* and whether the call panicked.
Committed(self, ret, panic) == [self |-> self, ret |-> ret, panic |-> panic]

\* CommitInFlight that forgets the key and keeps proposed_tx_pool_len.
CommitInFlight_keep_len(self, key, item) ==
    IF key \in DOMAIN self.proposed_in_flight
    THEN [self EXCEPT !.proposed_in_flight = MapRemove(@, key)]
    ELSE self

\* CommitInFlight that leaves the key of a rejected item in flight.
CommitInFlight_accepted_only(self, key, item) ==
    IF \/ item.type = "FirstBlock" /\ ~is_first_block(self.consensused)
       \/ item.type = "Block" /\ ~is_current_block(self.consensused, item.info.block_num)
    THEN self
    ELSE IF key \in DOMAIN self.proposed_in_flight
    THEN LET removed == [self EXCEPT !.proposed_in_flight = MapRemove(@, key)]
         IN IF item.type = "Transactions"
            THEN [removed EXCEPT !.proposed_tx_pool_len = @ - MapLen(item.txs)]
            ELSE removed
    ELSE self

\* received_commit, the Ok arm of the first match: the in-flight accounting.
CommitInFlight(self, key, item) ==
    IF key \in DOMAIN self.proposed_in_flight
    THEN LET removed == [self EXCEPT !.proposed_in_flight = MapRemove(@, key)]
         IN IF item.type = "Transactions"
            THEN [removed EXCEPT !.proposed_tx_pool_len = @ - MapLen(item.txs)]
            ELSE removed
    ELSE self

\* received_commit, arm ComputeRaftItem::FirstBlock.
CommitFirstBlock(self, key, uxto_set) ==
    IF ~is_first_block(self.consensused)
    THEN Committed(self, None, FALSE)
    ELSE LET c == append_first_block_info(self.consensused, key, uxto_set)
         IN IF has_block_stored_info_ready(c)
            THEN LET r == apply_ready_block_stored_info(c)
                 IN Committed([self EXCEPT !.consensused = r.c], Some("FirstBlock"), r.panic)
            ELSE Committed([self EXCEPT !.consensused = c], None, FALSE)

\* CommitTransactions that also moves the node's local pool into tx_pool.
CommitTransactions_with_local(self, key, txs) ==
    Committed([self EXCEPT !.consensused.tx_pool =
                               MapAppend(MapAppend(@, txs), self.local_tx_pool)],
              Some("Transactions"), FALSE)

\* CommitTransactions that ignores a batch committed in the first-block phase.
CommitTransactions_after_first_block(self, key, txs) ==
    IF is_first_block(self.consensused)
    THEN Committed(self, None, FALSE)
    ELSE Committed([self EXCEPT !.consensused.tx_pool = MapAppend(@, txs)],
                   Some("Transactions"), FALSE)

\* received_commit, arm ComputeRaftItem::Transactions.
CommitTransactions(self, key, txs) ==
    Committed([self EXCEPT !.consensused.tx_pool = MapAppend(@, txs)],
              Some("Transactions"), FALSE)

\* CommitDruidTransactions that puts the committed droplets before those
\* already in tx_druid_pool.
CommitDruidTransactions_prepend(self, key, txs) ==
    Committed([self EXCEPT !.consensused.tx_druid_pool = txs \o @],
              Some("Transactions"), FALSE)

\* received_commit, arm ComputeRaftItem::DruidTransactions.
CommitDruidTransactions(self, key, txs) ==
    Committed([self EXCEPT !.consensused.tx_druid_pool = @ \o txs],
              Some("Transactions"), FALSE)

\* received_commit, arm ComputeRaftItem::Block.
CommitBlock(self, key, info) ==
    IF ~is_current_block(self.consensused, info.block_num)
    THEN Committed(self, None, FALSE)
    ELSE LET c == append_block_stored_info(self.consensused, key, info)
         IN IF has_block_stored_info_ready(c)
            THEN LET r == apply_ready_block_stored_info(c)
                 IN Committed([self EXCEPT !.consensused = r.c], Some("Block"), r.panic)
            ELSE Committed([self EXCEPT !.consensused = c], None, FALSE)

\* received_commit that unwraps the result of deserialize.
received_commit_unwrap(self, raft_data) ==
    LET d == Deserialize(raft_data)
    IN IF ~d.ok THEN Committed(self, None, TRUE)
       ELSE LET s == CommitInFlight(self, d.key, d.item)
                r == CASE d.item.type = "FirstBlock" ->
                              CommitFirstBlock(s, d.key, d.item.utxo_set)
                       [] d.item.type = "Transactions" ->
                              CommitTransactions(s, d.key, d.item.txs)
                       [] d.item.type = "DruidTransactions" ->
                              CommitDruidTransactions(s, d.key, d.item.droplets)
                       [] d.item.type = "Block" ->
                              CommitBlock(s, d.key, d.item.info)
            IN IF s.proposed_tx_pool_len < 0
               THEN Committed(self, None, TRUE)
               ELSE r

received_commit(self, raft_data) ==
    LET d == Deserialize(raft_data)
    IN IF ~d.ok THEN Committed(self, None, FALSE)
       ELSE LET s == CommitInFlight(self, d.key, d.item)
                r == CASE d.item.type = "FirstBlock" ->
                              CommitFirstBlock(s, d.key, d.item.utxo_set)
                       [] d.item.type = "Transactions" ->
                              CommitTransactions(s, d.key, d.item.txs)
                       [] d.item.type = "DruidTransactions" ->
                              CommitDruidTransactions(s, d.key, d.item.droplets)
                       [] d.item.type = "Block" ->
                              CommitBlock(s, d.key, d.item.info)
            IN IF s.proposed_tx_pool_len < 0
               THEN Committed(self, None, TRUE)   \* usize underflow
               ELSE r

-----------------------------------------------------------------------------
(* The inputs the environment draws from.                                    *)

\* compute_seed_utxo of this node's configuration, and a configuration that
\* differs from it.
SeedUtxo == {1, 2, 3}
SeedChoices == {SeedUtxo, {1, 2}}

\* The transactions clients submit, by hash: 4 and 5 both spend output 2,
\* 6 has no input, 7 spends 6, 8 spends output 3.
TxCatalogue ==
    (4 :> [inputs |-> <<1, 2>>]) @@ (5 :> [inputs |-> <<2, 3>>]) @@
    (6 :> [inputs |-> <<>>]) @@ (7 :> [inputs |-> <<6>>]) @@
    (8 :> [inputs |-> <<3>>])

Batch(S) == MapRestrict(TxCatalogue, S)

\* What the clients of this node submit, and what those of other peers do.
ClientBatches == {Batch({6}), Batch({6, 7})}
ClientDroplets == {Batch({5})}
ForeignBatches == {Batch({4})}
ForeignDroplets == {Batch({4, 5})}

\* BlockStoredInfo reports: block 1 was mined with coinbase transaction 6,
\* block 2 with none.
BlockHashes == {1, 2}
MiningTransactions(block_hash) == IF block_hash = 1 THEN Batch({6}) ELSE EmptyMap
BlockStoredInfos ==
    {[block_hash |-> h, block_num |-> b, mining_transactions |-> MiningTransactions(h)] :
        h \in BlockHashes, b \in 0..MaxBlockNum}

\* A report for a block that no node of the run is computing yet.
FutureInfo ==
    [block_hash |-> 2, block_num |-> MaxBlockNum + 2,
     mining_transactions |-> MiningTransactions(2)]

\* What another peer of the cluster may have proposed.
ForeignItems ==
    {ItemFirstBlock(SeedUtxoSet(s)) : s \in SeedChoices}
    \cup {ItemBlock(info) : info \in BlockStoredInfos \cup {FutureInfo}}
    \cup {ItemTransactions(txs) : txs \in ForeignBatches}
    \cup {ItemDruidTransactions(<<d>>) : d \in ForeignDroplets}

\* The key of another peer's proposal: its FirstBlock is its first proposal.
ForeignKey(p, item) == RaftKey(p, IF item.type = "FirstBlock" THEN 1 ELSE 2)

-----------------------------------------------------------------------------
(* The node and its environment.                                             *)

Replicas == DOMAIN node
PeersLen == compute_nodes
ForeignPeers == (1..PeersLen) \ Replicas

\* ActiveRaft::use_raft: replication is off for a cluster of one.
UseRaft == PeersLen > 1

\* The orchestrator handles a FirstBlock or Block signal before anything else.
Idle(n) == ~panicked[n] /\ signal[n] \notin {Some("FirstBlock"), Some("Block")}

HarnessUnchanged == UNCHANGED <<compute_nodes, arg, out>>

\* Droplets of a committed entry.
DropletsOf(data) ==
    IF Deserialize(data).ok /\ data.item.type = "DruidTransactions"
    THEN Len(data.item.droplets) ELSE 0

RECURSIVE QueuedDroplets(_)
QueuedDroplets(q) ==
    IF q = <<>> THEN 0 ELSE DropletsOf(Head(q)) + QueuedDroplets(Tail(q))

\* The pools of committed droplets stay within the bound.
DruidRoom(data) ==
    \A n \in Replicas :
        Len(node[n].consensused.tx_druid_pool) + DropletsOf(data)
            + (IF n \in DOMAIN commit_queue THEN QueuedDroplets(commit_queue[n]) ELSE 0)
            <= MaxDruid

\* raft_active.propose_data: the data is with the raft group (with the
\* loopback channel when replication is off) until it is committed.
ProposeData(data) == raft_pending' = raft_pending \cup Range(data)

\* Committable of a channel that hands the pending payloads out in any order.
Committable_any_order(data) == data \in raft_pending

\* The next proposal to commit: any when the raft group orders them, the
\* oldest when replication is off (the loopback channel is FIFO).
Committable(data) ==
    /\ data \in raft_pending
    /\ UseRaft \/ \A other \in raft_pending : data.key.proposal_id <= other.key.proposal_id

InitNode(n, peers_len, seed) ==
    propose_initial_uxto_set(NewComputeRaft(n, peers_len), SeedUtxoSet(seed))

HarnessIdle == arg = None /\ out = None

\* The replicas `replicas` of a cluster whose size is one of `sizes`, each
\* right after ComputeRaft::new; the peers of the cluster that are no replica
\* are known by what they propose.
InitCluster(replicas, sizes) ==
    /\ compute_nodes \in sizes
    /\ LET first == [n \in replicas |-> InitNode(n, compute_nodes, SeedUtxo)]
       IN /\ node = [n \in replicas |-> first[n].self]
          /\ raft_pending = UNION {Range(first[n].data) : n \in replicas}
    /\ commit_queue = [n \in replicas \ {SelfPeerId} |-> <<>>]
    /\ signal = [n \in replicas |-> None]
    /\ panicked = [n \in replicas |-> FALSE]
    /\ HarnessIdle

\* One node and the log its cluster commits.
Init == InitCluster({SelfPeerId}, 1..MaxPeers)

\* Two nodes of one cluster.
InitReplicas == InitCluster({SelfPeerId, FollowerPeerId}, 2..MaxPeers)

-----------------------------------------------------------------------------
(* Operations of a node.                                                     *)

\* What the node holds for its next proposals: a batch of transactions,
\* droplets, block stored infos.
Staged(self) ==
    (IF self.local_tx_pool = EmptyMap THEN 0 ELSE 1)
        + Len(self.local_tx_druid_pool) + Len(self.last_block_stored_infos)

Local(n) == /\ Idle(n)
            /\ UNCHANGED <<signal, panicked>>
            /\ HarnessUnchanged

AppendToTxPool(n, transactions) ==
    /\ Local(n)
    /\ Staged(node[n]) < MaxStaged
    /\ node' = [node EXCEPT ![n] = append_to_tx_pool(@, transactions)]
    /\ UNCHANGED <<commit_queue, raft_pending>>

AppendToTxDruidPool(n, transactions) ==
    /\ Local(n)
    /\ Staged(node[n]) < MaxStaged
    /\ node' = [node EXCEPT ![n] = append_to_tx_druid_pool(@, transactions)]
    /\ UNCHANGED <<commit_queue, raft_pending>>

AppendBlockStoredInfo(n, info) ==
    /\ Local(n)
    /\ Staged(node[n]) < MaxStaged
    /\ node' = [node EXCEPT ![n] = raft_append_block_stored_info(@, info)]
    /\ UNCHANGED <<commit_queue, raft_pending>>

\* A propose operation `p` of the node: [self, data].
Propose(n, p) ==
    /\ Local(n)
    /\ p.self.proposed_last_id <= MaxProposals
    /\ node' = [node EXCEPT ![n] = p.self]
    /\ ProposeData(p.data)
    /\ UNCHANGED commit_queue

ProposeLocalTransactionsAtTimeout(n) ==
    Propose(n, propose_local_transactions_at_timeout(node[n]))

ProposeLocalDruidTransactions(n) ==
    Propose(n, propose_local_druid_transactions(node[n]))

ProposeBlockWithLastInfo(n) ==
    Propose(n, propose_block_with_last_info(node[n]))

\* received_commit(raft_data) by replica n.
Receive(n, raft_data) ==
    LET r == received_commit(node[n], raft_data)
    IN /\ node' = [node EXCEPT ![n] = IF r.panic THEN @ ELSE r.self]
       /\ signal' = [signal EXCEPT ![n] = r.ret]
       /\ panicked' = [panicked EXCEPT ![n] = r.panic]

\* The raft group commits raft_data: next_commit of the first replica yields
\* it and the replica applies it; it is queued for the other replicas.
Commit(raft_data) ==
    /\ Idle(SelfPeerId)
    /\ DruidRoom(raft_data)
    /\ \A n \in DOMAIN commit_queue : Len(commit_queue[n]) < MaxQueue
    /\ Receive(SelfPeerId, raft_data)
    /\ commit_queue' = [n \in DOMAIN commit_queue |-> Append(commit_queue[n], raft_data)]
    /\ HarnessUnchanged

\* A proposal of a replica is committed.
ReceivedCommitProposed(raft_data) ==
    /\ Committable(raft_data)
    /\ Commit(raft_data)
    /\ raft_pending' = raft_pending \ {raft_data}

\* A proposal of another peer is committed.
ReceivedCommitForeign(p, item) ==
    /\ Commit(Serialize(ForeignKey(p, item), item))
    /\ UNCHANGED raft_pending

\* Bytes that are no (key, item) pair are committed.
ReceivedCommitUndecodable ==
    /\ UseRaft
    /\ Commit(Undecodable)
    /\ UNCHANGED raft_pending

\* next_commit and received_commit of a replica that follows the first.
ReceivedCommitQueued(n) ==
    /\ n \in DOMAIN commit_queue
    /\ Idle(n)
    /\ commit_queue[n] /= <<>>
    /\ Receive(n, Head(commit_queue[n]))
    /\ commit_queue' = [commit_queue EXCEPT ![n] = Tail(@)]
    /\ UNCHANGED raft_pending
    /\ HarnessUnchanged

\* The orchestrator's answer to a signal: the assembly call `g`: [c, panic].
Assemble(n, g) ==
    /\ ~panicked[n]
    /\ node' = [node EXCEPT ![n].consensused = IF g.panic THEN @ ELSE g.c]
    /\ signal' = [signal EXCEPT ![n] = None]
    /\ panicked' = [panicked EXCEPT ![n] = g.panic]
    /\ UNCHANGED <<commit_queue, raft_pending>>
    /\ HarnessUnchanged

GenerateFirstBlock(n) ==
    /\ signal[n] = Some("FirstBlock")
    /\ Assemble(n, generate_first_block(node[n].consensused))

GenerateBlock(n) ==
    /\ signal[n] = Some("Block")
    /\ Assemble(n, generate_block(node[n].consensused))

\* Mining of the current block completed.
TakeMiningBlock(n) ==
    /\ Local(n)
    /\ IsSome(node[n].consensused.current_block)
    /\ node' = [node EXCEPT ![n].consensused = take_mining_block(@).c]
    /\ UNCHANGED <<commit_queue, raft_pending>>

NodeStep(n) ==
    \/ \E transactions \in ClientBatches : AppendToTxPool(n, transactions)
    \/ \E transactions \in ClientDroplets : AppendToTxDruidPool(n, transactions)
    \/ \E info \in BlockStoredInfos : AppendBlockStoredInfo(n, info)
    \/ ProposeLocalTransactionsAtTimeout(n)
    \/ ProposeLocalDruidTransactions(n)
    \/ ProposeBlockWithLastInfo(n)
    \/ GenerateFirstBlock(n)
    \/ GenerateBlock(n)
    \/ TakeMiningBlock(n)

\* A replica that follows the first: it has proposed its initial utxo set
\* and applies the committed log; no client and no storage node talks to it.
FollowerStep(n) ==
    \/ ReceivedCommitQueued(n)
    \/ GenerateFirstBlock(n)
    \/ GenerateBlock(n)
    \/ TakeMiningBlock(n)

Next ==
    \/ NodeStep(SelfPeerId)
    \/ \E raft_data \in raft_pending : ReceivedCommitProposed(raft_data)
    \/ \E p \in ForeignPeers, item \in ForeignItems : ReceivedCommitForeign(p, item)
    \/ ReceivedCommitUndecodable

Spec == Init /\ [][Next]_vars

NextReplicas ==
    \/ Next
    \/ \E n \in DOMAIN commit_queue : FollowerStep(n)

SpecReplicas == InitReplicas /\ [][NextReplicas]_vars

-----------------------------------------------------------------------------
(* A call of one function on its own: `arg` holds the state it is called on  *)
(* and its arguments, `out` what it returned.                                *)

NoCluster ==
    /\ compute_nodes = 0
    /\ node = <<>> /\ commit_queue = <<>> /\ raft_pending = {}
    /\ signal = <<>> /\ panicked = <<>>

ClusterUnchanged ==
    UNCHANGED <<compute_nodes, node, commit_queue, raft_pending, signal, panicked>>

RECURSIVE SeqsUpTo(_, _)
SeqsUpTo(S, n) ==
    IF n = 0 THEN {<<>>}
    ELSE LET shorter == SeqsUpTo(S, n - 1)
         IN shorter \cup {Append(q, x) : q \in shorter, x \in S}

\* Transactions of at most MaxInputs inputs, each naming one of MaxOutputs + 1
\* hashes; a map of such transactions under the hashes of `keys`.
DrawnTransactions == {[inputs |-> ins] : ins \in SeqsUpTo(0..MaxOutputs, MaxInputs)}
DrawnMaps(keys) == UNION {[S -> DrawnTransactions] : S \in SUBSET keys}

\* find_invalid_new_txs(&self, new_txs) with self.utxo_set drawn among the
\* hashes 1..MaxOutputs and up to MaxTxs candidates.
InitFind ==
    /\ NoCluster
    /\ \E utxo \in SUBSET (1..MaxOutputs) :
       \E new_txs \in DrawnMaps((MaxOutputs + 1)..(MaxOutputs + MaxTxs)) :
           arg = Some([utxo_set |-> SeedUtxoSet(utxo), new_txs |-> new_txs])
    /\ out = None

FindInvalidNewTxs ==
    /\ IsSome(arg) /\ IsNone(out)
    /\ out' = Some(find_invalid_new_txs(Unwrap(arg).utxo_set, Unwrap(arg).new_txs))
    /\ UNCHANGED arg
    /\ ClusterUnchanged

NextFind == FindInvalidNewTxs

SpecFind == InitFind /\ [][NextFind]_vars

\* The droplets a committed DruidTransactions entry may hold.
DrawnDroplets == {Batch({4}), Batch({5}), Batch({4, 5}), Batch({7})}

\* generate_block(&mut self) right after a Block signal, with utxo_set,
\* tx_pool and tx_druid_pool drawn from what commits may have left there.
InitAssembly ==
    /\ NoCluster
    /\ \E utxo \in SUBSET (SeedUtxo \cup {6}) :
       \E pool \in SUBSET DOMAIN TxCatalogue :
       \E droplets \in SeqsUpTo(DrawnDroplets, MaxDroplets) :
           arg = Some([NewConsensused(1) EXCEPT
                          !.utxo_set = [h \in utxo |-> IF h \in DOMAIN TxCatalogue
                                                       THEN TxCatalogue[h]
                                                       ELSE NewTransaction],
                          !.tx_pool = Batch(pool),
                          !.tx_druid_pool = droplets,
                          !.tx_current_block_previous_hash = Some(1),
                          !.tx_current_block_num = Some(1)])
    /\ out = None

GenerateBlockCall ==
    /\ IsSome(arg) /\ IsNone(out)
    /\ out' = Some(generate_block(Unwrap(arg)))
    /\ UNCHANGED arg
    /\ ClusterUnchanged

NextAssembly == GenerateBlockCall

SpecAssembly == InitAssembly /\ [][NextAssembly]_vars

-----------------------------------------------------------------------------
(* Properties.                                                               *)

Consensused(n) == node[n].consensused
Keys(m) == DOMAIN m

\* C1, as stated: in every reachable state of a node a transaction hash is a
\* key of at most one of utxo_set, tx_pool and current_block_tx.
C1_AtMostOnePlace ==
    \A n \in Replicas :
        /\ Keys(Consensused(n).utxo_set) \cap Keys(Consensused(n).tx_pool) = {}
        /\ Keys(Consensused(n).utxo_set) \cap Keys(Consensused(n).current_block_tx) = {}
        /\ Keys(Consensused(n).tx_pool) \cap Keys(Consensused(n).current_block_tx) = {}

\* C1, amended: in every reachable state of a node the hashes of the stored
\* block are keys of utxo_set as well: set_committed_mining_block appends
\* block_tx to utxo_set when it stores the block, so a hash of the block being
\* mined is a key of both current_block_tx and utxo_set.
C1_StoredBlockInUtxoSet ==
    \A n \in Replicas :
        Keys(Consensused(n).current_block_tx) \subseteq Keys(Consensused(n).utxo_set)

\* C1: generate_block stored a block holding transaction 6, taken from tx_pool.
C1_Witness ==
    \E n \in Replicas :
        /\ IsSome(Consensused(n).current_block)
        /\ IsSome(Unwrap(Consensused(n).current_block).header.previous_hash)
        /\ 6 \in Keys(Consensused(n).current_block_tx)
        /\ 6 \notin Keys(Consensused(n).tx_pool)

-----------------------------------------------------------------------------
\* C2: two replicas of one cluster that have applied the same prefix of the
\* committed log, and have answered every FirstBlock / Block signal with
\* generate_first_block / generate_block, hold equal utxo_set, tx_pool,
\* tx_druid_pool, tx_current_block_num and vote accumulator, and an equal
\* current_block and current_block_tx as long as both or neither has handed
\* the block out with take_mining_block, whatever their local state is.

CaughtUp(n) ==
    /\ commit_queue[n] = <<>>
    /\ Idle(SelfPeerId)
    /\ Idle(n)

SameConsensus(a, b) ==
    /\ a.utxo_set = b.utxo_set
    /\ a.tx_pool = b.tx_pool
    /\ a.tx_druid_pool = b.tx_druid_pool
    /\ a.tx_current_block_num = b.tx_current_block_num
    /\ a.current_block_stored_info = b.current_block_stored_info
    /\ IsSome(a.current_block) = IsSome(b.current_block)
           => /\ a.current_block = b.current_block
              /\ a.current_block_tx = b.current_block_tx

-----------------------------------------------------------------------------
(* The votes of the accumulator, read without the code's readiness test.     *)

\* What the raft group may commit next.
NextEntries ==
    raft_pending
        \cup {Serialize(ForeignKey(p, item), item) : p \in ForeignPeers, item \in ForeignItems}
        \cup {Undecodable}

IsEntry(d, type) == d.bytes = "pair" /\ d.item.type = type

\* The proposers recorded for `payload`.
Voters(c, payload) ==
    UNION {c.current_block_stored_info[k].votes :
              k \in {x \in DOMAIN c.current_block_stored_info :
                         c.current_block_stored_info[x].info = payload}}

Payloads(c) ==
    {c.current_block_stored_info[k].info : k \in DOMAIN c.current_block_stored_info}

\* Some payload has `threshold` distinct proposers once `key` voted for `payload`.
Agreed(c, key, payload, threshold) ==
    \E p \in Payloads(c) \cup {payload} :
        Cardinality(Voters(c, p) \cup (IF p = payload THEN {key.proposer_id} ELSE {}))
            >= threshold

\* C3: in the first-block phase a committed FirstBlock vote yields the
\* FirstBlock signal iff, once it is recorded, some payload is voted by all
\* compute_nodes proposers; then utxo_set is that payload, the block number
\* is 0 and the accumulator is empty; otherwise there is no signal and
\* utxo_set and tx_current_block_num are as before.
C3_FirstBlockUnanimity ==
    \A n \in Replicas : \A d \in NextEntries :
        (IsEntry(d, "FirstBlock") /\ IsNone(Consensused(n).tx_current_block_num)) =>
            LET c == Consensused(n)
                r == received_commit(node[n], d)
                after == r.self.consensused
            IN /\ ~r.panic
               /\ IF Agreed(c, d.key, AccFirstBlock(d.item.utxo_set), compute_nodes)
                  THEN /\ r.ret = Some("FirstBlock")
                       /\ after.utxo_set = d.item.utxo_set
                       /\ after.tx_current_block_num = Some(0)
                       /\ after.current_block_stored_info = EmptyMap
                  ELSE /\ r.ret = None
                       /\ after.utxo_set = c.utxo_set
                       /\ after.tx_current_block_num = c.tx_current_block_num

\* C3: the third of three proposers voted for the seed utxo set and the
\* first block is resolved.
C3_Witness ==
    /\ compute_nodes = MaxPeers
    /\ signal[SelfPeerId] = Some("FirstBlock")
    /\ Consensused(SelfPeerId).utxo_set = SeedUtxoSet(SeedUtxo)
    /\ Consensused(SelfPeerId).tx_current_block_num = Some(0)
    /\ Consensused(SelfPeerId).current_block_stored_info = EmptyMap

DivergentVotes ==
    /\ compute_nodes = 3
    /\ Consensused(SelfPeerId).tx_current_block_num = Some(0)
    /\ Cardinality(Payloads(Consensused(SelfPeerId))) = 2
    /\ \A p \in Payloads(Consensused(SelfPeerId)) :
           Cardinality(Voters(Consensused(SelfPeerId), p)) = 1

\* C5: a FirstBlock entry committed once tx_current_block_num is present, and
\* a Block(info) entry whose block_num is not tx_current_block_num (any Block
\* entry in the first-block phase, a late vote, a vote for a later block),
\* return no signal and leave every consensused field as it was.
C5_ViolationIgnored ==
    \A n \in Replicas : \A d \in NextEntries :
        (\/ IsEntry(d, "FirstBlock") /\ IsSome(Consensused(n).tx_current_block_num)
         \/ /\ IsEntry(d, "Block")
            /\ \/ IsNone(Consensused(n).tx_current_block_num)
               \/ d.item.info.block_num /= Unwrap(Consensused(n).tx_current_block_num)) =>
            LET r == received_commit(node[n], d)
            IN /\ ~r.panic
               /\ r.ret = None
               /\ r.self.consensused = Consensused(n)

\* C5: the node's second proposal was committed before its FirstBlock vote and
\* left neither a transaction nor a droplet nor a vote: it was a Block entry,
\* ignored in the first-block phase.
C5_Witness ==
    /\ IsNone(Consensused(SelfPeerId).tx_current_block_num)
    /\ node[SelfPeerId].proposed_last_id = 2
    /\ DOMAIN node[SelfPeerId].proposed_in_flight = {RaftKey(SelfPeerId, 1)}
    /\ raft_pending = {node[SelfPeerId].proposed_in_flight[RaftKey(SelfPeerId, 1)]}
    /\ signal[SelfPeerId] = None
    /\ Consensused(SelfPeerId).tx_pool = EmptyMap
    /\ Consensused(SelfPeerId).tx_druid_pool = <<>>
    /\ \A p \in Payloads(Consensused(SelfPeerId)) : p.type = "FirstBlock"

-----------------------------------------------------------------------------
RECURSIVE SumOf(_, _)
SumOf(f, S) ==
    IF S = {} THEN 0
    ELSE LET x == CHOOSE y \in S : TRUE IN f[x] + SumOf(f, S \ {x})

\* The batch size of each Transactions proposal still in flight.
InFlightBatchLen(self) ==
    [k \in {x \in DOMAIN self.proposed_in_flight :
                self.proposed_in_flight[x].item.type = "Transactions"} |->
        MapLen(self.proposed_in_flight[k].item.txs)]

\* C6: proposed_tx_pool_len is non-negative and is the sum of the batch sizes
\* of the Transactions proposals whose keys are in proposed_in_flight; the
\* commit of an entry proposed by another node changes neither
\* proposed_in_flight nor proposed_tx_pool_len.
C6_InFlightAccounting ==
    \A n \in Replicas :
        /\ node[n].proposed_tx_pool_len >= 0
        /\ node[n].proposed_tx_pool_len
               = SumOf(InFlightBatchLen(node[n]), DOMAIN InFlightBatchLen(node[n]))
        /\ \A d \in NextEntries :
               (d.bytes = "pair" /\ d.key.proposer_id /= node[n].peer_id) =>
                   LET r == received_commit(node[n], d)
                   IN /\ ~r.panic
                      /\ r.self.proposed_in_flight = node[n].proposed_in_flight
                      /\ r.self.proposed_tx_pool_len = node[n].proposed_tx_pool_len

\* C6: in a cluster of two the node proposed the batches {6} and {7}; the
\* commits of {6} and of another node's {4} are applied, {7} is in flight.
C6_Witness ==
    /\ compute_nodes = 2
    /\ signal[SelfPeerId] = Some("Transactions")
    /\ Keys(Consensused(SelfPeerId).tx_pool) = {4, 6}
    /\ node[SelfPeerId].proposed_tx_pool_len = 1
    /\ \E k \in DOMAIN node[SelfPeerId].proposed_in_flight :
           /\ node[SelfPeerId].proposed_in_flight[k].item.type = "Transactions"
           /\ Keys(node[SelfPeerId].proposed_in_flight[k].item.txs) = {7}

\* The step of replica n is a generate_block call that returned.
GenerateBlockReturned(n) ==
    /\ signal[n] = Some("Block")
    /\ signal'[n] = None
    /\ ~panicked'[n]

InputsOf(txs) == Range(get_inputs_previous_out_hash(txs))

\* C7, as stated: after a generate_block call every input of every
\* transaction of current_block_tx names a hash that was a key of utxo_set
\* when the call began and is no key of utxo_set when it returns.
C7_UtxoClosure ==
    [][\A n \in Replicas :
          GenerateBlockReturned(n) =>
              \A h \in InputsOf(node'[n].consensused.current_block_tx) :
                  /\ h \in Keys(node[n].consensused.utxo_set)
                  /\ h \notin Keys(node'[n].consensused.utxo_set)]_vars

-----------------------------------------------------------------------------
(* The droplet pass of a generate_block call, droplet by droplet.            *)

Returned == IsSome(arg) /\ IsSome(out)

Droplets == Unwrap(arg).tx_druid_pool

\* The assembly when the pass starts, and before and after its i-th droplet.
PassStart ==
    Assembly([Unwrap(arg) EXCEPT !.tx_druid_pool = <<>>], NewBlock, EmptyMap, FALSE)
BeforeDroplet(i) == DdeLoop(PassStart, SubSeq(Droplets, 1, i - 1))
AfterDroplet(i) == DdeLoop(PassStart, SubSeq(Droplets, 1, i))

Reported(i) == find_invalid_new_txs(BeforeDroplet(i).c.utxo_set, Droplets[i]) /= <<>>

Dropped(i) == AfterDroplet(i) = BeforeDroplet(i)

Applied(i) ==
    /\ Keys(Droplets[i]) \subseteq Keys(AfterDroplet(i).block_tx)
    /\ Keys(Droplets[i]) \subseteq Range(AfterDroplet(i).block.transactions)
    /\ Keys(AfterDroplet(i).c.utxo_set)
           = Keys(BeforeDroplet(i).c.utxo_set) \ InputsOf(Droplets[i])
    /\ Keys(Droplets[i]) \subseteq Keys(Unwrap(out).c.current_block_tx)

\* C8: in generate_block a droplet for which find_invalid_new_txs reports a
\* transaction leaves utxo_set, the block and block_tx as they were; a droplet
\* with no invalid transaction has all its transactions in the block and in
\* current_block_tx and all their inputs removed from utxo_set; a transaction
\* of the stored block comes from an applied droplet or from tx_pool.
C8_DropletAtomicity ==
    Returned =>
        /\ ~Unwrap(out).panic
        /\ \A i \in 1..Len(Droplets) :
               IF Reported(i) THEN Dropped(i) ELSE Applied(i)
        /\ \A h \in Keys(Unwrap(out).c.current_block_tx) :
               \/ h \in Keys(Unwrap(arg).tx_pool)
               \/ \E i \in 1..Len(Droplets) : ~Reported(i) /\ h \in Keys(Droplets[i])

\* C8: of the droplets {4, 5} and {7}, the first is dropped whole although its
\* transaction 4 is valid, the second is in the stored block.
C8_Witness ==
    /\ Returned
    /\ Droplets = <<Batch({4, 5}), Batch({7})>>
    /\ SeedUtxo \cup {6} \subseteq Keys(Unwrap(arg).utxo_set)
    /\ Keys(Unwrap(out).c.current_block_tx) = {7}
    /\ SeedUtxo \subseteq Keys(Unwrap(out).c.utxo_set)

ValidAtStart(txs) == find_invalid_new_txs(Unwrap(arg).utxo_set, txs) = <<>>

Conflict(a, b) == InputsOf(a) \cap InputsOf(b) /= {}

-----------------------------------------------------------------------------
(* The greedy resolver, stated on the candidates below a hash.               *)

Distinct(ins) == \A i \in DOMAIN ins : \A j \in DOMAIN ins : ins[i] = ins[j] => i = j

\* The candidates accepted among those of `keys`: the highest is accepted iff
\* its inputs are distinct keys of utxo_set that no accepted lower candidate
\* spends.
RECURSIVE Accepted(_, _, _)
Accepted(utxo_set, new_txs, keys) ==
    IF keys = {} THEN {}
    ELSE LET h == CHOOSE x \in keys : \A y \in keys : x >= y
             lower == Accepted(utxo_set, new_txs, keys \ {h})
             claimed == UNION {Range(new_txs[k].inputs) : k \in lower}
         IN IF /\ Range(new_txs[h].inputs) \subseteq DOMAIN utxo_set
               /\ Range(new_txs[h].inputs) \cap claimed = {}
               /\ Distinct(new_txs[h].inputs)
            THEN lower \cup {h}
            ELSE lower

\* C10: find_invalid_new_txs returns, in ascending order, exactly the
\* candidates the greedy resolver rejects: those with an input that is no key
\* of utxo_set, or is spent by an accepted lower candidate, or occurs twice
\* among their own inputs; the accepted candidates have pairwise disjoint
\* inputs that are keys of utxo_set.
C10_GreedyResolver ==
    Returned =>
        LET utxo_set == Unwrap(arg).utxo_set
            new_txs == Unwrap(arg).new_txs
            accepted == Accepted(utxo_set, new_txs, DOMAIN new_txs)
        IN /\ Unwrap(out) = SortedSeq(DOMAIN new_txs \ accepted)
           /\ \A h \in accepted : Range(new_txs[h].inputs) \subseteq DOMAIN utxo_set
           /\ \A h \in accepted : \A k \in accepted :
                  h /= k => Range(new_txs[h].inputs) \cap Range(new_txs[k].inputs) = {}

\* C10: the lowest candidate claims output 1 and is rejected for its second
\* input; the next candidate spends output 1 and is accepted.
C10_Witness ==
    /\ Returned
    /\ Unwrap(arg).utxo_set = SeedUtxoSet({1, 2})
    /\ DOMAIN Unwrap(arg).new_txs = {MaxOutputs + 1, MaxOutputs + 2}
    /\ Unwrap(arg).new_txs[MaxOutputs + 1].inputs = <<1, 3>>
    /\ Unwrap(arg).new_txs[MaxOutputs + 2].inputs = <<1, 2>>
    /\ Unwrap(out) = <<MaxOutputs + 1>>

-----------------------------------------------------------------------------
(* The post-state of a generate_block call.                                  *)

\* The transactions of the droplets the pass applied.
RECURSIVE AdmittedDroplets(_)
AdmittedDroplets(i) ==
    IF i = 0 THEN EmptyMap
    ELSE IF Reported(i) THEN AdmittedDroplets(i - 1)
         ELSE MapAppend(AdmittedDroplets(i - 1), Droplets[i])

\* The tx_pool transactions that are valid once the droplets are applied, and
\* of these the BLOCK_SIZE_IN_TX lowest hashes.
ValidPool ==
    Keys(Unwrap(arg).tx_pool)
        \ Range(find_invalid_new_txs(AfterDroplet(Len(Droplets)).c.utxo_set,
                                     Unwrap(arg).tx_pool))
SelectedPool ==
    {h \in ValidPool : Cardinality({k \in ValidPool : k < h}) < BLOCK_SIZE_IN_TX}

\* C11: after generate_block, utxo_set is the utxo_set before the call less
\* every input of the transactions placed in the block, plus the block's
\* transactions under their hashes; an output spent only by pruned
\* transactions or dropped droplets is still in utxo_set; current_block_tx is
\* exactly the applied droplets and the selected tx_pool transactions;
\* tx_druid_pool is empty.
C11_GenerateBlockPostState ==
    Returned =>
        LET before == Unwrap(arg)
            after == Unwrap(out).c
            block_tx == after.current_block_tx
        IN /\ ~Unwrap(out).panic
           /\ after.utxo_set
                  = MapAppend(MapRestrict(before.utxo_set,
                                          Keys(before.utxo_set) \ InputsOf(block_tx)),
                              block_tx)
           /\ \A h \in Keys(before.utxo_set) :
                  h \notin InputsOf(block_tx) => h \in Keys(after.utxo_set)
           /\ block_tx = MapAppend(AdmittedDroplets(Len(Droplets)),
                                   MapRestrict(before.tx_pool, SelectedPool))
           /\ after.tx_druid_pool = <<>>

\* C11: the droplet {4, 5} is dropped and transaction 5 is pruned from
\* tx_pool; output 3, which only they spend, stays in utxo_set next to the
\* block's transactions 4 and 6.
C11_Witness ==
    /\ Returned
    /\ Droplets = <<Batch({4, 5})>>
    /\ Keys(Unwrap(arg).tx_pool) = {4, 5, 6}
    /\ Keys(Unwrap(arg).utxo_set) = SeedUtxo
    /\ Keys(Unwrap(out).c.current_block_tx) = {4, 6}
    /\ Keys(Unwrap(out).c.utxo_set) = {3, 4, 6}

-----------------------------------------------------------------------------
(* Outputs of a block and the block after it.                                *)

\* The struct when the next Block signal is answered, a Transactions entry
\* with `txs` having been committed after the call returned.
NextRound(c, txs) ==
    [c EXCEPT !.tx_pool = MapAppend(@, txs),
              !.tx_current_block_previous_hash = Some(2),
              !.tx_current_block_num = Some(2)]

\* The catalogue transactions that spend an output of `block_tx`.
Spenders(block_tx) ==
    {t \in DOMAIN TxCatalogue :
        /\ TxCatalogue[t].inputs /= <<>>
        /\ Range(TxCatalogue[t].inputs) \subseteq Keys(block_tx)}

\* C12: a transaction of the block generate_block stores spends no output of
\* a transaction admitted by the same call unless that hash was in utxo_set
\* when the call began; every hash of the stored block is in utxo_set when
\* the call returns, and a transaction spending such outputs that is
\* committed afterwards is in the block of the next generate_block.
C12_SpendableByLaterBlocks ==
    Returned =>
        LET before == Unwrap(arg)
            after == Unwrap(out).c
            block_tx == after.current_block_tx
        IN /\ ~Unwrap(out).panic
           /\ \A h \in Keys(block_tx) : \A i \in Range(block_tx[h].inputs) :
                  i \in Keys(block_tx) => i \in Keys(before.utxo_set)
           /\ Keys(block_tx) \subseteq Keys(after.utxo_set)
           /\ \A t \in Spenders(block_tx) :
                  LET next == generate_block(NextRound(after, Batch({t})))
                  IN /\ ~next.panic
                     /\ t \in Keys(next.c.current_block_tx)

\* C12: tx_pool holds 6 and 7, 7 spends 6 and 6 is not in utxo_set: the block
\* is {6}, 7 is pruned, and 7 committed again is in the next block.
C12_Witness ==
    /\ Returned
    /\ Droplets = <<>>
    /\ Keys(Unwrap(arg).tx_pool) = {6, 7}
    /\ Keys(Unwrap(arg).utxo_set) = SeedUtxo
    /\ Keys(Unwrap(out).c.current_block_tx) = {6}
    /\ Unwrap(out).c.tx_pool = EmptyMap
    /\ Spenders(Unwrap(out).c.current_block_tx) = {7}
    /\ Keys(generate_block(NextRound(Unwrap(out).c, Batch({7}))).c.current_block_tx) = {7}

-----------------------------------------------------------------------------
\* C13: a committed Transactions entry, before or after the first block,
\* returns the Transactions signal and puts its batch in tx_pool: tx_pool
\* grows by the size of the batch less the batch hashes it already held, and
\* utxo_set, tx_druid_pool, tx_current_block_num and the vote accumulator are
\* as before.
C13_Conservation ==
    \A n \in Replicas : \A d \in NextEntries :
        IsEntry(d, "Transactions") =>
            LET c == Consensused(n)
                r == received_commit(node[n], d)
                after == r.self.consensused
                txs == d.item.txs
            IN /\ ~r.panic
               /\ r.ret = Some("Transactions")
               /\ MapLen(after.tx_pool)
                      = MapLen(c.tx_pool) + MapLen(txs)
                            - Cardinality(Keys(txs) \cap Keys(c.tx_pool))
               /\ \A h \in Keys(txs) : h \in Keys(after.tx_pool) /\ after.tx_pool[h] = txs[h]
               /\ \A h \in Keys(c.tx_pool) : h \in Keys(after.tx_pool)
               /\ after.utxo_set = c.utxo_set
               /\ after.tx_druid_pool = c.tx_druid_pool
               /\ after.tx_current_block_num = c.tx_current_block_num
               /\ after.current_block_stored_info = c.current_block_stored_info

\* C13: in the first-block phase tx_pool holds 4 from a committed batch of
\* another peer, the last commit returned Transactions, and the same batch
\* under another key may be committed next: tx_pool then still holds one
\* transaction, and two once the node's pending batch {6} is committed.
C13_Witness ==
    /\ IsNone(Consensused(SelfPeerId).tx_current_block_num)
    /\ signal[SelfPeerId] = Some("Transactions")
    /\ Keys(Consensused(SelfPeerId).tx_pool) = {4}
    /\ \E d \in NextEntries \ raft_pending :
           /\ IsEntry(d, "Transactions")
           /\ Keys(d.item.txs) = {4}
           /\ MapLen(received_commit(node[SelfPeerId], d).self.consensused.tx_pool) = 1
    /\ \E d \in raft_pending :
           /\ IsEntry(d, "Transactions")
           /\ Keys(d.item.txs) = {6}
           /\ MapLen(received_commit(node[SelfPeerId], d).self.consensused.tx_pool) = 2

-----------------------------------------------------------------------------
\* The node has committed the first block and one Transactions batch {6},
\* holds no mining block and no vote, and its own report of block 0 is the
\* Block entry `d` with the raft group.
OneReport(d) ==
    /\ d \in raft_pending
    /\ IsEntry(d, "Block")
    /\ d.item.info.block_num = 0
    /\ Idle(SelfPeerId)
    /\ Consensused(SelfPeerId).tx_current_block_num = Some(0)
    /\ DOMAIN Consensused(SelfPeerId).current_block_stored_info = {}
    /\ Keys(Consensused(SelfPeerId).tx_pool) = {6}
    /\ Consensused(SelfPeerId).tx_druid_pool = <<>>
    /\ IsNone(Consensused(SelfPeerId).current_block)

\* C14, as stated: in a group of 1, 2 or 3 compute nodes that committed the
\* first block and a batch holding transaction 6, the commit of the single
\* report of block 0 that one node proposed returns the Block signal, and the
\* mining block then generated holds exactly transaction 6.
C14_SingleReportCommitsBlock ==
    \A d \in raft_pending :
        OneReport(d) =>
            LET r == received_commit(node[SelfPeerId], d)
                g == generate_block(r.self.consensused)
            IN /\ ~r.panic
               /\ r.ret = Some("Block")
               /\ ~g.panic
               /\ IsSome(g.c.current_block)
               /\ Unwrap(g.c.current_block).transactions = <<6>>

-----------------------------------------------------------------------------
(* A node without replication whose pool limits are set by hand, as in test  *)
(* in_flight_transactions_no_raft: transactions are staged once, then the    *)
(* node alternates a propose timeout and the application of all pending      *)
(* commits.  `out` holds the Vec that collect_info fills.                    *)

\* (combined, local, in flight, consensused) lengths.
collect_info(self) ==
    <<combined_tx_pool_len(self), MapLen(self.local_tx_pool),
      self.proposed_tx_pool_len, MapLen(self.consensused.tx_pool)>>

\* `count` transactions without inputs under the hashes first + 1 .. first + count.
PoolTransactions(first, count) == [h \in (first + 1)..(first + count) |-> NewTransaction]

\* new_test_node(&[]) after its FirstBlock commit, with the two limits set,
\* `staged` transactions appended to the local pool, one droplet appended to
\* the local druid pool and `committed` transactions of earlier commits in
\* tx_pool.
PoolNode(cap, len_max, staged, committed) ==
    LET first == InitNode(SelfPeerId, 1, {})
        r == received_commit(first.self, first.data[1])
        limited == [r.self EXCEPT !.proposed_and_consensused_tx_pool_len_max = cap,
                                  !.proposed_tx_pool_len_max = len_max,
                                  !.consensused.tx_pool =
                                      PoolTransactions(MaxLocalTxs + 1, committed)]
    IN append_to_tx_druid_pool(
           append_to_tx_pool(limited, PoolTransactions(0, staged)), Batch({4, 5}))

Collected == Unwrap(out)

InitPool ==
    /\ compute_nodes = 1
    /\ \E cap \in 0..MaxPoolCap, len_max \in 0..MaxProposeLen,
          staged \in 0..MaxLocalTxs, committed \in 0..MaxCommittedTxs :
           /\ node = [n \in {SelfPeerId} |-> PoolNode(cap, len_max, staged, committed)]
           /\ out = Some(<<collect_info(PoolNode(cap, len_max, staged, committed))>>)
    /\ raft_pending = {}
    /\ commit_queue = <<>>
    /\ signal = [n \in {SelfPeerId} |-> None]
    /\ panicked = [n \in {SelfPeerId} |-> FALSE]
    /\ arg = None

\* loop { next_commit => received_commit }: the pending proposals in the
\* order of the loopback channel.
RECURSIVE ApplyPending(_, _)
ApplyPending(r, pending) ==
    IF pending = {} THEN r
    ELSE LET d == CHOOSE x \in pending :
                      \A y \in pending : x.key.proposal_id <= y.key.proposal_id
             next == received_commit(r.self, d)
         IN ApplyPending(Committed(next.self, next.ret, r.panic \/ next.panic),
                         pending \ {d})

\* First half of a cycle: both propose calls, then collect_info.
ProposeAtTimeout ==
    /\ Len(Collected) % 2 = 1
    /\ Len(Collected) < 2 * MaxCycles + 1
    /\ LET p == propose_local_transactions_at_timeout(node[SelfPeerId])
           q == propose_local_druid_transactions(p.self)
       IN /\ node' = [node EXCEPT ![SelfPeerId] = q.self]
          /\ raft_pending' = raft_pending \cup Range(p.data) \cup Range(q.data)
          /\ out' = Some(Append(Collected, collect_info(q.self)))
    /\ UNCHANGED <<compute_nodes, commit_queue, signal, panicked, arg>>

\* Second half of a cycle: every pending commit is applied, then collect_info.
ApplyCommits ==
    /\ Len(Collected) % 2 = 0
    /\ LET r == ApplyPending(Committed(node[SelfPeerId], None, FALSE), raft_pending)
       IN /\ node' = [node EXCEPT ![SelfPeerId] = r.self]
          /\ signal' = [signal EXCEPT ![SelfPeerId] = r.ret]
          /\ panicked' = [panicked EXCEPT ![SelfPeerId] = r.panic]
          /\ out' = Some(Append(Collected, collect_info(r.self)))
    /\ raft_pending' = {}
    /\ UNCHANGED <<compute_nodes, commit_queue, arg>>

NextPool == ProposeAtTimeout \/ ApplyCommits

SpecPool == InitPool /\ [][NextPool]_vars

\* C15, as stated: propose_local_transactions_at_timeout adds
\* n = min(max_add, proposed_tx_pool_len_max) to proposed_tx_pool_len, where
\* max_add = proposed_and_consensused_tx_pool_len_max
\*               - (proposed_tx_pool_len + |consensused.tx_pool|).
C15_IncrementedByN ==
    \A r \in Replicas :
        LET self == node[r]
            p == propose_local_transactions_at_timeout(self)
            max_add == self.proposed_and_consensused_tx_pool_len_max
                           - proposed_and_consensused_tx_pool_len(self)
            n == Min(max_add, self.proposed_tx_pool_len_max)
        IN p.self.proposed_tx_pool_len = self.proposed_tx_pool_len + n

\* The first `count` hashes of `m` in key order.
FirstKeys(m, count) == {h \in Keys(m) : Cardinality({k \in Keys(m) : k < h}) < count}

\* C15: propose_local_transactions_at_timeout, with max_add the limit less
\* what is proposed and consensused (0 if that is more than the limit) and
\* n = min(max_add, proposed_tx_pool_len_max), takes the first
\* min(n, |local_tx_pool|) entries of local_tx_pool in key order; if it took
\* any it proposes them as one Transactions batch under the next proposal id
\* and adds their number to proposed_tx_pool_len; if it took none it proposes
\* nothing and changes nothing.
C15_PeriodicPropose ==
    \A r \in Replicas :
        LET self == node[r]
            p == propose_local_transactions_at_timeout(self)
            held == proposed_and_consensused_tx_pool_len(self)
            max_add == IF held > self.proposed_and_consensused_tx_pool_len_max THEN 0
                       ELSE self.proposed_and_consensused_tx_pool_len_max - held
            n == Min(max_add, self.proposed_tx_pool_len_max)
            taken == FirstKeys(self.local_tx_pool, n)
            key == RaftKey(self.peer_id, self.proposed_last_id + 1)
        IN /\ Cardinality(taken) = Min(n, MapLen(self.local_tx_pool))
           /\ Keys(p.self.local_tx_pool) = Keys(self.local_tx_pool) \ taken
           /\ p.self.proposed_tx_pool_len = self.proposed_tx_pool_len + Cardinality(taken)
           /\ p.self.consensused = self.consensused
           /\ IF taken = {}
              THEN p.data = <<>> /\ p.self = self
              ELSE /\ p.data = <<Serialize(key, ItemTransactions(
                                     MapRestrict(self.local_tx_pool, taken)))>>
                   /\ p.self.proposed_last_id = self.proposed_last_id + 1
                   /\ Keys(p.self.proposed_in_flight)
                          = Keys(self.proposed_in_flight) \cup {key}

\* C15: with limits 3 and 2 and one transaction staged, n is 2 and the
\* timeout has taken and proposed that one transaction only.
C15_Witness ==
    /\ Len(Collected) = 2
    /\ Collected[1] = <<1, 1, 0, 0>>
    /\ Collected[2] = <<1, 0, 1, 0>>
    /\ node[SelfPeerId].proposed_tx_pool_len_max = 2
    /\ node[SelfPeerId].proposed_and_consensused_tx_pool_len_max = 3
    /\ \E d \in raft_pending : IsEntry(d, "Transactions") /\ Keys(d.item.txs) = {1}

-----------------------------------------------------------------------------
\* The lengths test in_flight_transactions_no_raft expects, from the append on.
ExpectedLengths ==
    << <<6, 6, 0, 0>>, <<6, 4, 2, 0>>, <<6, 4, 0, 2>>, <<6, 3, 1, 2>>,
       <<6, 3, 0, 3>>, <<6, 3, 0, 3>>, <<6, 3, 0, 3>> >>

TestLimits ==
    /\ node[SelfPeerId].proposed_and_consensused_tx_pool_len_max = 3
    /\ node[SelfPeerId].proposed_tx_pool_len_max = 2
    /\ Collected[1] = ExpectedLengths[1]

\* C16: a node without replication with limits 3 and 2 and six transactions
\* staged collects, over three cycles of a propose timeout followed by the
\* pending commits, the lengths (6,6,0,0), (6,4,2,0), (6,4,0,2), (6,3,1,2),
\* (6,3,0,3), (6,3,0,3), (6,3,0,3); whatever the limits and the number of
\* staged transactions, every propose and every commit of the node's own
\* batch leaves combined = local + in flight + consensused as it was.
C16_PoolAdmissionTrace ==
    /\ TestLimits =>
           \A i \in 1..Min(Len(Collected), Len(ExpectedLengths)) :
               Collected[i] = ExpectedLengths[i]
    /\ \A i \in DOMAIN Collected :
           /\ Collected[i][1] = Collected[1][1]
           /\ Collected[i][1] = Collected[i][2] + Collected[i][3] + Collected[i][4]

\* C16: the three cycles of the test are over.
C16_Witness ==
    /\ TestLimits
    /\ Len(Collected) >= Len(ExpectedLengths)
    /\ SubSeq(Collected, 1, Len(ExpectedLengths)) = ExpectedLengths
    /\ raft_pending = {}
    /\ Len(Consensused(SelfPeerId).tx_druid_pool) = 1

-----------------------------------------------------------------------------
\* C17: a committed payload that does not deserialize to a (key, item) pair
\* makes received_commit return no signal, without a panic, and leaves the
\* whole struct as it was (the consensused fields, proposed_in_flight,
\* proposed_tx_pool_len and the local pools); every entry committed after it
\* is applied as it would have been without it.
C17_UndecodableDropped ==
    \A n \in Replicas :
        LET r == received_commit(node[n], Undecodable)
        IN /\ ~r.panic
           /\ r.ret = None
           /\ r.self = node[n]
           /\ \A d \in NextEntries :
                  received_commit(r.self, d) = received_commit(node[n], d)

\* C17: bytes that are no pair may be committed while the node has a
\* Transactions batch in flight, a vote recorded and committed transactions
\* from a peer; the in-flight batch is then still committed with its signal.
C17_Witness ==
    /\ UseRaft
    /\ Idle(SelfPeerId)
    /\ node[SelfPeerId].proposed_tx_pool_len > 0
    /\ DOMAIN Consensused(SelfPeerId).current_block_stored_info /= {}
    /\ Consensused(SelfPeerId).tx_pool /= EmptyMap
    /\ \E d \in raft_pending :
           /\ IsEntry(d, "Transactions")
           /\ received_commit(received_commit(node[SelfPeerId], Undecodable).self, d).ret
                  = Some("Transactions")

-----------------------------------------------------------------------------
(* The votes of a whole cluster, seen from one node: every peer proposes its *)
(* initial utxo set at start-up (the configured seeds may differ) and, once *)
(* block 0 is being voted on, reports for it: this node what it has staged  *)
(* when it proposes, another peer one report at a time; the raft group      *)
(* commits every proposal.                                                  *)

PeerFirstBlock(p, seed) == Serialize(RaftKey(p, 1), ItemFirstBlock(SeedUtxoSet(seed)))
PeerBlock(p, info) == Serialize(RaftKey(p, 2), ItemBlock(info))

\* The cluster at start-up, peer p having seeds[p] as its compute_seed_utxo.
InitPeers(seeds) ==
    /\ LET first == InitNode(SelfPeerId, compute_nodes, seeds[SelfPeerId])
       IN /\ node = [n \in {SelfPeerId} |-> first.self]
          /\ raft_pending = Range(first.data)
                 \cup {PeerFirstBlock(p, seeds[p]) : p \in (1..compute_nodes) \ {SelfPeerId}}
    /\ commit_queue = <<>>
    /\ signal = [n \in {SelfPeerId} |-> None]
    /\ panicked = [n \in {SelfPeerId} |-> FALSE]
    /\ HarnessIdle

InitVote ==
    /\ compute_nodes \in 1..MaxPeers
    /\ \E seeds \in [1..compute_nodes -> SeedChoices] : InitPeers(seeds)

VotingOn(block_num) == Consensused(SelfPeerId).tx_current_block_num = Some(block_num)

\* Peer p has a report with the raft group or a vote in the accumulator.
HasReported(p) ==
    \/ \E d \in raft_pending : IsEntry(d, "Block") /\ d.key.proposer_id = p
    \/ \E payload \in Payloads(Consensused(SelfPeerId)) :
           p \in Voters(Consensused(SelfPeerId), payload)

\* A storage node tells this node that block 0 is stored.
StorageReports(info) ==
    /\ VotingOn(0)
    /\ ~HasReported(SelfPeerId)
    /\ AppendBlockStoredInfo(SelfPeerId, info)

\* Another peer proposes its report of block 0.
PeerReports(p, info) ==
    /\ VotingOn(0)
    /\ ~HasReported(p)
    /\ raft_pending' = raft_pending \cup {PeerBlock(p, info)}
    /\ UNCHANGED <<node, commit_queue, signal, panicked>>
    /\ HarnessUnchanged

NextVote ==
    \/ \E info \in BlockStoredInfos : StorageReports(info)
    \/ ProposeBlockWithLastInfo(SelfPeerId)
    \/ \E p \in ForeignPeers, info \in BlockStoredInfos : PeerReports(p, info)
    \/ \E raft_data \in raft_pending : ReceivedCommitProposed(raft_data)
    \/ GenerateFirstBlock(SelfPeerId)
    \/ GenerateBlock(SelfPeerId)

\* Whatever a peer may hand to the raft group.
Proposals ==
    {PeerFirstBlock(p, seed) : p \in 1..MaxPeers, seed \in SeedChoices}
        \cup {Serialize(RaftKey(p, id), ItemBlock(info)) :
                  p \in 1..MaxPeers, id \in 2..MaxProposals, info \in BlockStoredInfos}

\* Every entry is delivered and the orchestrator answers signals.
FairDelivery ==
    /\ \A raft_data \in Proposals : WF_vars(ReceivedCommitProposed(raft_data))
    /\ WF_vars(GenerateFirstBlock(SelfPeerId))
    /\ WF_vars(GenerateBlock(SelfPeerId))

SpecVote == InitVote /\ [][NextVote]_vars /\ FairDelivery

SufficientMajority == compute_nodes \div 2 + 1

\* The peers whose report `info` is with the raft group or recorded.
Proposers(info) ==
    {d.key.proposer_id :
        d \in {x \in raft_pending : IsEntry(x, "Block") /\ x.item.info = info}}
        \cup Voters(Consensused(SelfPeerId), AccBlock(info))

MajorityProposed(info) ==
    /\ VotingOn(info.block_num)
    /\ Cardinality(Proposers(info)) >= SufficientMajority

\* The node returned the Block signal that resolves block `block_num`.
BlockSignalFor(block_num) ==
    /\ signal[SelfPeerId] = Some("Block")
    /\ Consensused(SelfPeerId).tx_current_block_num = Some(block_num + 1)

\* A vote for the current block committed while another payload has votes:
\* it resolves the block to its payload iff that payload then has
\* SufficientMajority proposers; otherwise it is recorded next to the others.
DivergenceAccumulates ==
    \A d \in raft_pending :
        LET c == Consensused(SelfPeerId)
        IN (/\ IsEntry(d, "Block")
            /\ VotingOn(d.item.info.block_num)
            /\ Payloads(c) \ {AccBlock(d.item.info)} /= {}) =>
               LET r == received_commit(node[SelfPeerId], d)
                   after == r.self.consensused
                   payload == AccBlock(d.item.info)
                   voters == Voters(c, payload) \cup {d.key.proposer_id}
               IN /\ ~r.panic
                  /\ IF Cardinality(voters) >= SufficientMajority
                     THEN /\ r.ret = Some("Block")
                          /\ after.tx_current_block_previous_hash
                                 = Some(d.item.info.block_hash)
                          /\ after.tx_current_block_num = Some(d.item.info.block_num + 1)
                          /\ after.current_block_stored_info = EmptyMap
                     ELSE /\ r.ret = None
                          /\ after.tx_current_block_num = c.tx_current_block_num
                          /\ Payloads(after) = Payloads(c) \cup {payload}
                          /\ Voters(after, payload) = voters
                          /\ \A other \in Payloads(c) \ {payload} :
                                 Voters(after, other) = Voters(c, other)

\* C18: while distinct payloads hold votes for the current block every
\* further vote is recorded, and the vote that gives one payload
\* floor(N/2)+1 distinct proposers applies that payload; if the entries are
\* delivered fairly and floor(N/2)+1 peers have proposed the same Block(info)
\* for the block being voted on, the node eventually returns the Block signal
\* for that block.
C18_VoteDivergence ==
    /\ []DivergenceAccumulates
    /\ \A info \in BlockStoredInfos :
           MajorityProposed(info) ~> BlockSignalFor(info.block_num)

\* C18: in a cluster of three two payloads hold one vote each and the report
\* that is still with the raft group agrees with one of them.
C18_Witness ==
    /\ compute_nodes = 3
    /\ Cardinality(Payloads(Consensused(SelfPeerId))) = 2
    /\ \A p \in Payloads(Consensused(SelfPeerId)) :
           p.type = "Block" /\ Cardinality(Voters(Consensused(SelfPeerId), p)) = 1
    /\ \E info \in BlockStoredInfos :
           /\ MajorityProposed(info)
           /\ \E d \in raft_pending :
                  /\ IsEntry(d, "Block") /\ d.item.info = info
                  /\ received_commit(node[SelfPeerId], d).ret = Some("Block")

-----------------------------------------------------------------------------
\* The FirstBlock payloads the peers proposed: with the raft group or recorded.
FirstBlockPayloads ==
    {AccFirstBlock(d.item.utxo_set) : d \in {x \in raft_pending : IsEntry(x, "FirstBlock")}}
        \cup {p \in Payloads(Consensused(SelfPeerId)) : p.type = "FirstBlock"}

Diverged == Cardinality(FirstBlockPayloads) >= 2

\* The node is in the first-block phase with no FirstBlock signal, and no
\* entry that may be committed gets it out: a FirstBlock vote returns no
\* signal, a Block entry of any peer is ignored.
Wedged ==
    /\ IsNone(Consensused(SelfPeerId).tx_current_block_num)
    /\ signal[SelfPeerId] \notin {Some("FirstBlock"), Some("Block")}
    /\ ~panicked[SelfPeerId]
    /\ \A d \in raft_pending :
           IsEntry(d, "FirstBlock") =>
               LET r == received_commit(node[SelfPeerId], d)
               IN /\ ~r.panic
                  /\ r.ret = None
                  /\ IsNone(r.self.consensused.tx_current_block_num)
    /\ \A p \in 1..compute_nodes : \A info \in BlockStoredInfos \cup {FutureInfo} :
           LET r == received_commit(node[SelfPeerId], PeerBlock(p, info))
           IN /\ ~r.panic
              /\ r.ret = None
              /\ r.self.consensused = Consensused(SelfPeerId)

\* Every recorded vote is still recorded after the step.
VotesKept ==
    \A p \in Payloads(Consensused(SelfPeerId)) :
        /\ p \in Payloads(Consensused(SelfPeerId))'
        /\ Voters(Consensused(SelfPeerId), p) \subseteq Voters(Consensused(SelfPeerId), p)'

\* C19: when the FirstBlock payloads the peers proposed at start-up are not
\* all identical, the node stays in the first-block phase for ever:
\* tx_current_block_num stays absent, no FirstBlock signal is returned, every
\* Block entry is ignored, and the accumulator keeps the divergent votes.
C19_DivergentGenesisWedged ==
    /\ [](Diverged => Wedged)
    /\ [][Diverged => (Diverged' /\ VotesKept)]_vars

\* C19: the three peers' votes are all committed, two for one seed set and
\* one for another, and the node is still in the first-block phase.
C19_Witness ==
    /\ compute_nodes = 3
    /\ \A d \in raft_pending : ~IsEntry(d, "FirstBlock")
    /\ Cardinality(Payloads(Consensused(SelfPeerId))) = 2
    /\ \E p \in Payloads(Consensused(SelfPeerId)) :
           p.type = "FirstBlock" /\ Cardinality(Voters(Consensused(SelfPeerId), p)) = 2
    /\ IsNone(Consensused(SelfPeerId).tx_current_block_num)
    /\ signal[SelfPeerId] = None

-----------------------------------------------------------------------------
\* The payload is a vote for what `c` is voting on.
ForCurrentBlock(c, payload) ==
    IF IsNone(c.tx_current_block_num)
    THEN payload.type = "FirstBlock"
    ELSE /\ payload.type = "Block"
         /\ payload.info.block_num = Unwrap(c.tx_current_block_num)

\* C20: current_block_stored_info holds votes for the block being voted on
\* only: FirstBlock payloads while tx_current_block_num is absent, otherwise
\* Block payloads whose block_num is tx_current_block_num, each with at least
\* one proposer; it is empty right after every FirstBlock or Block signal.
C20_AccumulatorCurrentOnly ==
    \A n \in Replicas :
        LET c == Consensused(n)
        IN /\ \A payload \in Payloads(c) :
                  ForCurrentBlock(c, payload) /\ Voters(c, payload) /= {}
           /\ signal[n] \in {Some("FirstBlock"), Some("Block")}
                  => c.current_block_stored_info = EmptyMap
           /\ \A d \in NextEntries :
                  LET r == received_commit(node[n], d)
                  IN /\ \A payload \in Payloads(r.self.consensused) :
                            ForCurrentBlock(r.self.consensused, payload)
                     /\ r.ret \in {Some("FirstBlock"), Some("Block")}
                            => r.self.consensused.current_block_stored_info = EmptyMap

\* C20: block 0 is being voted on in a cluster of three; the accumulator
\* holds one Block vote for block 0, and entries for a later block and
\* FirstBlock votes may be committed next.
C20_Witness ==
    /\ compute_nodes = 3
    /\ Consensused(SelfPeerId).tx_current_block_num = Some(0)
    /\ Cardinality(Payloads(Consensused(SelfPeerId))) = 1
    /\ \A p \in Payloads(Consensused(SelfPeerId)) : p.type = "Block" /\ p.info.block_num = 0
    /\ \E d \in NextEntries : IsEntry(d, "Block") /\ d.item.info = FutureInfo
    /\ \E d \in NextEntries : IsEntry(d, "FirstBlock")

-----------------------------------------------------------------------------
(* C21: vote monotonicity.                                                   *)

\* The step is a resolution: received_commit of the node returned the
\* FirstBlock or the Block signal.
Resolution(n) ==
    /\ signal'[n] \in {Some("FirstBlock"), Some("Block")}
    /\ signal[n] \notin {Some("FirstBlock"), Some("Block")}

\* The step of the node: max_agreeing_block_stored_info before and after.
AgreeingBefore(n) == max_agreeing_block_stored_info(node[n].consensused)
AgreeingAfter(n) == max_agreeing_block_stored_info(node'[n].consensused)

\* C21: across every operation of the node (a commit of any kind, a proposal,
\* an append to a local pool, generate_first_block, generate_block,
\* take_mining_block) the value of max_agreeing_block_stored_info does not
\* decrease, except at a resolution (a commit that returns the FirstBlock or
\* the Block signal), where it becomes 0.
C21_VoteMonotonicity ==
    [][IF Resolution(SelfPeerId)
       THEN AgreeingAfter(SelfPeerId) = 0
       ELSE AgreeingAfter(SelfPeerId) >= AgreeingBefore(SelfPeerId)]_vars

\* Two of three peers agree on the first block, a vote for another payload is
\* recorded beside them, and the node has proposed since then.
C21_Witness ==
    /\ compute_nodes = 3
    /\ is_first_block(node[SelfPeerId].consensused)
    /\ max_agreeing_block_stored_info(node[SelfPeerId].consensused) = 2
    /\ has_different_block_stored_info(node[SelfPeerId].consensused)
    /\ node[SelfPeerId].proposed_last_id >= 2
    /\ ~panicked[SelfPeerId]

-----------------------------------------------------------------------------
(* C22: votes are counted per distinct proposer and per payload.             *)

\* The readiness threshold of the phase the node is in.
Threshold(c) ==
    IF IsNone(c.tx_current_block_num) THEN compute_nodes ELSE compute_nodes \div 2 + 1

\* The entry is a vote for the block the node is voting on.
IsCurrentVote(c, d) ==
    \/ IsEntry(d, "FirstBlock") /\ IsNone(c.tx_current_block_num)
    \/ /\ IsEntry(d, "Block")
       /\ IsSome(c.tx_current_block_num)
       /\ d.item.info.block_num = Unwrap(c.tx_current_block_num)

\* The payload the accumulator records for a vote entry.
VotePayload(d) ==
    IF d.item.type = "FirstBlock" THEN AccFirstBlock(d.item.utxo_set)
    ELSE AccBlock(d.item.info)

\* The entry repeats a vote: its proposer is recorded for its payload.
RepeatsVote(c, d) ==
    IsCurrentVote(c, d) /\ d.key.proposer_id \in Voters(c, VotePayload(d))

\* C22: every payload recorded for the block being voted on has fewer distinct
\* proposers than the threshold, whatever the number of votes recorded for
\* all payloads together; a committed vote of a proposer already recorded for
\* the same payload returns no signal and leaves the consensused state as it
\* was; a committed vote resolves the block exactly when the distinct
\* proposers of its own payload, its proposer included, reach the threshold,
\* and otherwise adds its proposer to that payload only.
C22_VotesPerDistinctProposer ==
    \A n \in Replicas :
        LET c == Consensused(n)
        IN /\ \A p \in Payloads(c) : Cardinality(Voters(c, p)) < Threshold(c)
           /\ \A d \in NextEntries :
                  IsCurrentVote(c, d) =>
                      LET r == received_commit(node[n], d)
                          after == r.self.consensused
                          payload == VotePayload(d)
                          voters == Voters(c, payload) \cup {d.key.proposer_id}
                      IN /\ ~r.panic
                         /\ RepeatsVote(c, d) => (r.ret = None /\ after = c)
                         /\ r.ret \in {Some("FirstBlock"), Some("Block")}
                                <=> Cardinality(voters) >= Threshold(c)
                         /\ r.ret = None =>
                                /\ Voters(after, payload) = voters
                                /\ \A q \in Payloads(after) \ {payload} :
                                       Voters(after, q) = Voters(c, q)
                                /\ Payloads(after) = Payloads(c) \cup {payload}

\* In a cluster of three the node's report of block 0 is recorded with the
\* node as its one proposer, and the node's second proposal of the same
\* report is about to be committed.
C22_Witness ==
    /\ compute_nodes = 3
    /\ Consensused(SelfPeerId).tx_current_block_num = Some(0)
    /\ \E d \in raft_pending :
           /\ IsEntry(d, "Block")
           /\ d.key.proposer_id = SelfPeerId
           /\ RepeatsVote(Consensused(SelfPeerId), d)
           /\ Voters(Consensused(SelfPeerId), VotePayload(d)) = {SelfPeerId}
           /\ received_commit(node[SelfPeerId], d).ret = None
    /\ Idle(SelfPeerId)

-----------------------------------------------------------------------------
(* C23: a cluster of one, replication off.                                   *)

PendingIds(pending) == {d.key.proposal_id : d \in pending}

\* The proposals of the node not yet delivered are the in-flight ones, each
\* pending once, and they are the latest it made: proposals 1..m are
\* delivered, m+1..proposed_last_id are pending; the FirstBlock of
\* construction is proposal 1; no other peer exists.
LoopbackQueue(self, pending) ==
    /\ ForeignPeers = {}
    /\ pending = Range(self.proposed_in_flight)
    /\ \A d \in pending : d.key.proposer_id = self.peer_id
    /\ PendingIds(pending)
           = (self.proposed_last_id - Cardinality(pending) + 1)..self.proposed_last_id
    /\ Cardinality(PendingIds(pending)) = Cardinality(pending)
    /\ \A d \in pending : d.key.proposal_id = 1 <=> d.item.type = "FirstBlock"
    /\ is_first_block(self.consensused) <=> 1 \in PendingIds(pending)

\* The step delivers `d`: next_commit yields it and received_commit applies it.
Delivers(d) ==
    /\ d \in raft_pending
    /\ raft_pending' = raft_pending \ {d}

-----------------------------------------------------------------------------
(* C24: the first block.                                                     *)

\* `s` lists the elements of S in ascending order, each once.
AscendingListOf(s, S) ==
    /\ Range(s) = S
    /\ \A i \in DOMAIN s : \A j \in DOMAIN s : i < j => s[i] < s[j]

\* C24: when received_commit has returned the FirstBlock signal, the keys of
\* utxo_set are the seed hashes every peer of the cluster voted for (those of
\* the node's own configuration); the generate_first_block that answers the
\* signal stores a block whose transactions are these keys in ascending order
\* and whose header has no previous hash, sets current_block_tx to utxo_set,
\* and leaves utxo_set, tx_pool, tx_druid_pool, tx_current_block_num and
\* tx_current_block_previous_hash as they were.
C24_FirstBlockAssembly ==
    [][\A n \in Replicas :
          signal[n] = Some("FirstBlock") =>
              LET c == node[n].consensused
                  after == node'[n].consensused
              IN /\ DOMAIN c.utxo_set = SeedUtxo
                 /\ c.tx_current_block_num = Some(0)
                 /\ ~panicked'[n]
                 /\ signal'[n] = None
                 /\ IsSome(after.current_block)
                 /\ AscendingListOf(Unwrap(after.current_block).transactions,
                                    DOMAIN c.utxo_set)
                 /\ Unwrap(after.current_block).header.previous_hash = None
                 /\ after.current_block_tx = c.utxo_set
                 /\ after.utxo_set = c.utxo_set
                 /\ after.tx_pool = c.tx_pool
                 /\ after.tx_druid_pool = c.tx_druid_pool
                 /\ after.tx_current_block_num = c.tx_current_block_num
                 /\ after.tx_current_block_previous_hash = c.tx_current_block_previous_hash
                 /\ after.current_block_stored_info = c.current_block_stored_info]_vars

\* In a cluster of three the first block is stored: its transactions are the
\* three seed hashes in order, and the transaction committed before the votes
\* is still in tx_pool.
C24_Witness ==
    /\ compute_nodes = 3
    /\ signal[SelfPeerId] = None
    /\ IsSome(Consensused(SelfPeerId).current_block)
    /\ Unwrap(Consensused(SelfPeerId).current_block).transactions = <<1, 2, 3>>
    /\ Unwrap(Consensused(SelfPeerId).current_block).header.previous_hash = None
    /\ Consensused(SelfPeerId).current_block_tx = Consensused(SelfPeerId).utxo_set
    /\ Consensused(SelfPeerId).tx_current_block_num = Some(0)
    /\ Consensused(SelfPeerId).tx_pool /= EmptyMap

-----------------------------------------------------------------------------
(* C25: the header of an assembled block.                                    *)

\* Block numbers of the reports drawn for the header, and the digits of a
\* block number drawn at the full width of a u64.
HeaderBlockNums == {0, 1, 65535, 65536, 16777216}
HeaderDigits == {0, 1, 65535}

\* The struct right after received_commit applied the one vote Block(info)
\* of a cluster of one that was voting on info.block_num.
AfterBlockApplied(info) ==
    LET voting == [NewConsensused(1) EXCEPT
                      !.tx_current_block_num = Some(info.block_num),
                      !.utxo_set = SeedUtxoSet(SeedUtxo)]
    IN apply_ready_block_stored_info(
           append_block_stored_info(voting, RaftKey(SelfPeerId, 2), info)).c

\* generate_block(&mut self) right after the Block signal for a drawn report,
\* and the cast of update_block_header on a block number of 64 bits.
InitHeader ==
    /\ NoCluster
    /\ \E h \in BlockHashes : \E b \in HeaderBlockNums :
       \E wide \in [1..4 -> HeaderDigits] :
           LET info == [block_hash |-> h, block_num |-> b,
                        mining_transactions |-> MiningTransactions(h)]
           IN arg = Some([info |-> info, c |-> AfterBlockApplied(info), wide |-> wide])
    /\ out = None

GenerateBlockHeader ==
    /\ IsSome(arg) /\ IsNone(out)
    /\ out' = Some([g |-> generate_block(Unwrap(arg).c),
                    time |-> as_u32(Unwrap(arg).wide)])
    /\ UNCHANGED arg
    /\ ClusterUnchanged

NextHeader == GenerateBlockHeader

SpecHeader == InitHeader /\ [][NextHeader]_vars

-----------------------------------------------------------------------------
(* C26: the ordinary pass of generate_block.                                 *)

\* The tx_pool hashes find_invalid_new_txs reports when the ordinary pass
\* starts (the droplets are applied), and the hashes that remain.
InvalidPool ==
    Range(find_invalid_new_txs(AfterDroplet(Len(Droplets)).c.utxo_set,
                               Unwrap(arg).tx_pool))
RemainingPool == Keys(Unwrap(arg).tx_pool) \ InvalidPool

\* The n lowest hashes of S.
Lowest(S, n) == {h \in S : Cardinality({k \in S : k < h}) < n}

MovedPool ==
    Lowest(RemainingPool, Min(BLOCK_SIZE_IN_TX, Cardinality(RemainingPool)))

\* Hashes of the droplets generate_block applied.
DropletHashes == Keys(AdmittedDroplets(Len(Droplets)))

\* What C26 says of the remaining transactions: the
\* min(BLOCK_SIZE_IN_TX, remaining) lowest hashes are moved into the block,
\* whatever the droplets added to it, and the others stay in tx_pool.
OrdinaryPass ==
    LET before == Unwrap(arg)
        after == Unwrap(out).c
    IN /\ ~Unwrap(out).panic
       /\ Cardinality(MovedPool) = Min(BLOCK_SIZE_IN_TX, Cardinality(RemainingPool))
       /\ MovedPool \subseteq Keys(after.current_block_tx)
       /\ MovedPool \subseteq Range(Unwrap(after.current_block).transactions)
       /\ after.tx_pool = MapRestrict(before.tx_pool, RemainingPool \ MovedPool)
       /\ Keys(after.current_block_tx) = DropletHashes \cup MovedPool
       /\ InvalidPool \cap Keys(after.tx_pool) = {}

\* C26, as stated: after generate_block a transaction of tx_pool reported
\* invalid is in neither tx_pool nor the block.
C26_InvalidInNeither ==
    Returned =>
        /\ OrdinaryPass
        /\ InvalidPool \cap Keys(Unwrap(out).c.current_block_tx) = {}

\* C26, amended: the ordinary pass of generate_block removes from tx_pool
\* every transaction find_invalid_new_txs reports, moves the
\* min(BLOCK_SIZE_IN_TX, remaining) lowest remaining hashes into the block and
\* leaves the other remaining ones in tx_pool; the transactions of the
\* droplets are in the block besides these; a reported transaction is never
\* moved by the pass: its hash is in the block only when an applied droplet
\* holds a transaction of that hash.
C26_BlockSize ==
    Returned =>
        /\ OrdinaryPass
        /\ InvalidPool \cap MovedPool = {}
        /\ InvalidPool \cap Keys(Unwrap(out).c.current_block_tx) \subseteq DropletHashes

\* The droplet {7} is applied; of tx_pool {4, 5, 6, 8}, 5 is reported, 4 and
\* 6 are moved to the block, which then holds three transactions, and 8 stays.
C26_Witness ==
    /\ Returned
    /\ Droplets = <<Batch({7})>>
    /\ Keys(Unwrap(arg).tx_pool) = {4, 5, 6, 8}
    /\ Keys(Unwrap(arg).utxo_set) = SeedUtxo \cup {6}
    /\ InvalidPool = {5}
    /\ Keys(Unwrap(out).c.current_block_tx) = {4, 6, 7}
    /\ Keys(Unwrap(out).c.tx_pool) = {8}

-----------------------------------------------------------------------------
(* C27: the keys of the proposals.                                           *)

\* The decodable payloads of the replicas' proposals that are with the raft
\* group, queued for a replica, or in flight at their proposer.
ProposedData ==
    {d \in raft_pending
            \cup UNION {Range(commit_queue[n]) : n \in DOMAIN commit_queue}
            \cup UNION {Range(node[n].proposed_in_flight) : n \in Replicas} :
        d.bytes = "pair" /\ d.key.proposer_id \in Replicas}

\* No two of them carry the same key; each is numbered from 1 up to the last
\* id of its proposer, 1 being the FirstBlock of construction.
KeysDistinct ==
    \A d \in ProposedData :
        /\ \A e \in ProposedData : d.key = e.key => d = e
        /\ d.key.proposal_id \in 1..node[d.key.proposer_id].proposed_last_id
        /\ d.key.proposal_id = 1 <=> d.item.type = "FirstBlock"

\* The keys replica n puts in flight in the step.
NewKeys(n) ==
    DOMAIN node'[n].proposed_in_flight \ DOMAIN node[n].proposed_in_flight

\* C27: every item a node proposes is handed to the raft group under the key
\* (the node's peer id, a proposal id greater than every id the node used
\* before), one id per item, the ids starting at 1 with the FirstBlock of
\* construction; and no two proposals of the cluster's nodes that are pending,
\* queued or in flight carry the same key.
C27_ProposalKeys ==
    [][/\ KeysDistinct
       /\ KeysDistinct'
       /\ \A n \in Replicas :
              /\ node'[n].proposed_last_id >= node[n].proposed_last_id
              /\ Cardinality(NewKeys(n))
                     = node'[n].proposed_last_id - node[n].proposed_last_id
              /\ \A k \in NewKeys(n) :
                     /\ k.proposer_id = node[n].peer_id
                     /\ k.proposal_id > node[n].proposed_last_id
                     /\ node'[n].proposed_in_flight[k].key = k
                     /\ node'[n].proposed_in_flight[k] \in raft_pending' \ raft_pending
       /\ \A d \in raft_pending' \ raft_pending :
              d.key.proposer_id \in Replicas /\ d.key \in NewKeys(d.key.proposer_id)]_vars

\* The first node has made its third proposal; proposal 1 of the second node
\* and proposal 3 of the first are with the raft group.
C27_Witness ==
    /\ node[SelfPeerId].proposed_last_id = 3
    /\ node[FollowerPeerId].proposed_last_id = 1
    /\ \E d \in raft_pending : d.key = RaftKey(SelfPeerId, 3)
    /\ \E d \in raft_pending : d.key = RaftKey(FollowerPeerId, 1)
    /\ RaftKey(SelfPeerId, 1) \notin DOMAIN node[SelfPeerId].proposed_in_flight

-----------------------------------------------------------------------------
(* C28: a proposal is in flight until its commit is applied.                 *)

\* The proposals of replica n whose commit n has yet to apply: those with the
\* raft group and those committed and queued for n.
Unapplied(n) ==
    {d \in raft_pending
            \cup (IF n \in DOMAIN commit_queue THEN Range(commit_queue[n]) ELSE {}) :
        d.bytes = "pair" /\ d.key.proposer_id = node[n].peer_id}

\* The item is rejected as a protocol violation by the node in this state.
Rejected(c, d) ==
    \/ IsEntry(d, "FirstBlock") /\ ~is_first_block(c)
    \/ IsEntry(d, "Block") /\ ~is_current_block(c, d.item.info.block_num)

\* C28: the proposals of a node whose commit it has not applied are exactly
\* the entries of its proposed_in_flight, under their keys; the commit of
\* each, applied by the node, finds the key and removes it and no other, also
\* when the item is rejected as a protocol violation; when the node has
\* applied the commit of every proposal it made, proposed_in_flight is empty
\* and proposed_tx_pool_len is 0.
C28_ProposeBeforeCommit ==
    \A n \in Replicas :
        LET self == node[n]
        IN /\ \A d \in Unapplied(n) :
                  /\ d.key \in DOMAIN self.proposed_in_flight
                  /\ self.proposed_in_flight[d.key] = d
                  /\ LET r == received_commit(self, d)
                     IN /\ ~r.panic
                        /\ r.self.proposed_in_flight
                               = MapRemove(self.proposed_in_flight, d.key)
                        /\ Rejected(self.consensused, d) =>
                               (r.ret = None /\ r.self.consensused = self.consensused)
           /\ DOMAIN self.proposed_in_flight = {d.key : d \in Unapplied(n)}
           /\ Unapplied(n) = {} =>
                  /\ self.proposed_in_flight = EmptyMap
                  /\ self.proposed_tx_pool_len = 0

\* The node has applied the commits of its three proposals in the first-block
\* phase of a cluster of three: its FirstBlock vote, a batch of transactions,
\* and a block report that was rejected; nothing is in flight.
C28_Witness ==
    /\ compute_nodes = 3
    /\ node[SelfPeerId].proposed_last_id = 3
    /\ Unapplied(SelfPeerId) = {}
    /\ node[SelfPeerId].proposed_in_flight = EmptyMap
    /\ is_first_block(Consensused(SelfPeerId))
    /\ SelfPeerId \in Voters(Consensused(SelfPeerId), AccFirstBlock(SeedUtxoSet(SeedUtxo)))
    /\ Consensused(SelfPeerId).tx_pool /= EmptyMap
    /\ Consensused(SelfPeerId).tx_druid_pool = <<>>
    /\ node[SelfPeerId].local_tx_pool = EmptyMap

-----------------------------------------------------------------------------
(* Droplets from the user's request to tx_druid_pool.  `out` holds the       *)
(* droplets handed to append_to_tx_druid_pool so far, in order.              *)

StagedDroplets == Unwrap(out)

\* DruidTransactions items another peer may have proposed: two droplets, in
\* either order.
ForeignDruidItems ==
    {ItemDruidTransactions(<<Batch({4}), Batch({4, 5})>>),
     ItemDruidTransactions(<<Batch({4, 5}), Batch({4})>>)}

\* One node of a cluster of one or two, right after ComputeRaft::new.
InitDruid ==
    /\ compute_nodes \in 1..2
    /\ LET first == InitNode(SelfPeerId, compute_nodes, SeedUtxo)
       IN /\ node = [n \in {SelfPeerId} |-> first.self]
          /\ raft_pending = Range(first.data)
    /\ commit_queue = <<>>
    /\ signal = [n \in {SelfPeerId} |-> None]
    /\ panicked = [n \in {SelfPeerId} |-> FALSE]
    /\ arg = None
    /\ out = Some(<<>>)

\* A user's droplet is staged.
StageDroplet(transactions) ==
    /\ Idle(SelfPeerId)
    /\ Len(StagedDroplets) < MaxDruidStaged
    /\ node' = [node EXCEPT ![SelfPeerId] = append_to_tx_druid_pool(@, transactions)]
    /\ out' = Some(Append(StagedDroplets, transactions))
    /\ UNCHANGED <<compute_nodes, commit_queue, raft_pending, signal, panicked, arg>>

\* A user's transactions are staged, once nothing of the node's is left in a
\* transaction pool.
StageTransactions(transactions) ==
    /\ Idle(SelfPeerId)
    /\ combined_tx_pool_len(node[SelfPeerId]) = 0
    /\ node' = [node EXCEPT ![SelfPeerId] = append_to_tx_pool(@, transactions)]
    /\ UNCHANGED <<compute_nodes, commit_queue, raft_pending, signal, panicked, arg, out>>

\* A proposal of the node is committed and applied.
DruidCommitProposed(raft_data) ==
    /\ Committable(raft_data)
    /\ Idle(SelfPeerId)
    /\ Receive(SelfPeerId, raft_data)
    /\ raft_pending' = raft_pending \ {raft_data}
    /\ UNCHANGED commit_queue
    /\ HarnessUnchanged

\* A DruidTransactions item of another peer is committed and applied.
DruidCommitForeign(p, item) ==
    /\ Idle(SelfPeerId)
    /\ Len(Consensused(SelfPeerId).tx_druid_pool) < MaxDruidStaged
    /\ Receive(SelfPeerId, Serialize(ForeignKey(p, item), item))
    /\ UNCHANGED <<commit_queue, raft_pending>>
    /\ HarnessUnchanged

NextDruid ==
    \/ \E transactions \in {Batch({5}), Batch({7})} : StageDroplet(transactions)
    \/ StageTransactions(Batch({6}))
    \/ ProposeLocalDruidTransactions(SelfPeerId)
    \/ ProposeLocalTransactionsAtTimeout(SelfPeerId)
    \/ \E raft_data \in raft_pending : DruidCommitProposed(raft_data)
    \/ \E p \in ForeignPeers, item \in ForeignDruidItems : DruidCommitForeign(p, item)
    \/ GenerateFirstBlock(SelfPeerId)

SpecDruid == InitDruid /\ [][NextDruid]_vars

-----------------------------------------------------------------------------
(* C29: DRUID staging.                                                       *)

\* The DruidTransactions entries that may be committed next.
DruidEntries ==
    {d \in raft_pending : IsEntry(d, "DruidTransactions")}
        \cup {Serialize(ForeignKey(p, item), item) :
                  p \in ForeignPeers, item \in ForeignDruidItems}

\* The droplets of the entries of S, the entries taken in proposal order.
RECURSIVE DropletsInOrder(_)
DropletsInOrder(S) ==
    IF S = {} THEN <<>>
    ELSE LET d == CHOOSE x \in S : \A y \in S : x.key.proposal_id <= y.key.proposal_id
         IN d.item.droplets \o DropletsInOrder(S \ {d})

\* C29: propose_local_druid_transactions leaves local_tx_druid_pool empty
\* and, when the pool held droplets, proposes all of them, in their order, as
\* one DruidTransactions item (nothing, and no proposal id, when it was
\* empty); received_commit of a DruidTransactions item returns the
\* Transactions signal and appends its droplets, in their order, after those
\* tx_druid_pool holds; neither changes proposed_tx_pool_len, tx_pool or any
\* other consensused field; and in a cluster of one the droplets staged so
\* far are, in order and each once, those of tx_druid_pool, then those of the
\* pending items, then those of local_tx_druid_pool.
C29_DruidStaging ==
    LET self == node[SelfPeerId]
        c == self.consensused
        p == propose_local_druid_transactions(self)
    IN /\ p.self.local_tx_druid_pool = <<>>
       /\ IF self.local_tx_druid_pool = <<>>
          THEN p.data = <<>> /\ p.self = self
          ELSE /\ Len(p.data) = 1
               /\ p.data[1].item = ItemDruidTransactions(self.local_tx_druid_pool)
               /\ p.data[1].key = RaftKey(self.peer_id, self.proposed_last_id + 1)
               /\ DOMAIN p.self.proposed_in_flight
                      = DOMAIN self.proposed_in_flight \cup {p.data[1].key}
       /\ p.self.proposed_tx_pool_len = self.proposed_tx_pool_len
       /\ p.self.local_tx_pool = self.local_tx_pool
       /\ p.self.consensused = c
       /\ \A d \in DruidEntries :
              LET r == received_commit(self, d)
              IN /\ ~r.panic
                 /\ r.ret = Some("Transactions")
                 /\ r.self.consensused
                        = [c EXCEPT !.tx_druid_pool = c.tx_druid_pool \o d.item.droplets]
                 /\ r.self.proposed_tx_pool_len = self.proposed_tx_pool_len
                 /\ r.self.local_tx_druid_pool = self.local_tx_druid_pool
       /\ compute_nodes = 1 =>
              StagedDroplets = c.tx_druid_pool \o DropletsInOrder(DruidEntries)
                                   \o self.local_tx_druid_pool

\* The node's droplet {5} is committed, the two droplets of another peer's
\* item are appended after it in their order, and the droplets {7} and {5},
\* staged later, were proposed as one item that is pending.
C29_Witness ==
    /\ compute_nodes = 2
    /\ Consensused(SelfPeerId).tx_druid_pool = <<Batch({5}), Batch({4}), Batch({4, 5})>>
    /\ \E d \in raft_pending :
           /\ IsEntry(d, "DruidTransactions")
           /\ d.item.droplets = <<Batch({7}), Batch({5})>>
    /\ node[SelfPeerId].local_tx_druid_pool = <<>>
    /\ StagedDroplets = <<Batch({5}), Batch({7}), Batch({5})>>
    /\ signal[SelfPeerId] = Some("Transactions")

-----------------------------------------------------------------------------
(* C30: the admission test.                                                  *)

\* C30: in every reachable state of a node and for every extra_len,
\* tx_pool_can_accept(extra_len) is true exactly when |local_tx_pool| +
\* proposed_tx_pool_len + |consensused.tx_pool| + extra_len <= TX_POOL_LIMIT
\* (the call borrows the node immutably and changes nothing), so it is true
\* for extra_len = 0 iff the pools are within the limit and, once false for
\* some extra_len, false for every larger one.
C30_AdmissionTest ==
    \A n \in Replicas : \A extra_len \in 0..MaxExtraLen :
        LET self == node[n]
            total == MapLen(self.local_tx_pool) + self.proposed_tx_pool_len
                         + MapLen(self.consensused.tx_pool) + extra_len
        IN /\ tx_pool_can_accept(self, extra_len) \in BOOLEAN
           /\ tx_pool_can_accept(self, extra_len) <=> total <= TX_POOL_LIMIT
           /\ total = TX_POOL_LIMIT => tx_pool_can_accept(self, extra_len)
           /\ total = TX_POOL_LIMIT + 1 => ~tx_pool_can_accept(self, extra_len)

\* Staged, in-flight and consensused transactions together fill the pool to
\* the limit, each of the three counts being positive: a batch of no
\* transaction is accepted, a batch of one is refused.
C30_Witness ==
    /\ MapLen(node[SelfPeerId].local_tx_pool) > 0
    /\ node[SelfPeerId].proposed_tx_pool_len > 0
    /\ MapLen(Consensused(SelfPeerId).tx_pool) > 0
    /\ combined_tx_pool_len(node[SelfPeerId]) = TX_POOL_LIMIT
    /\ tx_pool_can_accept(node[SelfPeerId], 0)
    /\ ~tx_pool_can_accept(node[SelfPeerId], 1)

-----------------------------------------------------------------------------
(* C31: block stored infos from storage become Block proposals.              *)

\* The node after append_block_stored_info of each info of `infos` in turn.
RECURSIVE Injected(_, _)
Injected(self, infos) ==
    IF infos = <<>> THEN self
    ELSE Injected(raft_append_block_stored_info(self, Head(infos)), Tail(infos))

\* The Block proposals that forward `buffer`: one per info, in its order,
\* under the proposal ids that follow `last_id`.
Forwarded(self, buffer, last_id) ==
    [i \in 1..Len(buffer) |->
        Serialize(RaftKey(self.peer_id, last_id + i), ItemBlock(buffer[i]))]

\* propose_block_with_last_info on a node whose buffer holds `buffer`.
ForwardsInOrder(self, buffer) ==
    LET p == propose_block_with_last_info(self)
    IN /\ p.self.last_block_stored_infos = <<>>
       /\ p.data = Forwarded(self, buffer, self.proposed_last_id)
       /\ p.self.proposed_last_id = self.proposed_last_id + Len(buffer)
       /\ Keys(p.self.proposed_in_flight)
              = Keys(self.proposed_in_flight) \cup {d.key : d \in Range(p.data)}
       /\ \A d \in Range(p.data) : p.self.proposed_in_flight[d.key] = d
       /\ p.self.consensused = self.consensused

\* C31: whatever infos are injected into a node in a reachable state, the
\* injections add them to the buffer in order and change nothing else (no
\* consensused field), and the next propose_block_with_last_info forwards the
\* whole buffer as one Block proposal per info, in injection order, empties
\* the buffer and changes no consensused field; the commit of such a proposal
\* for the current block is what records the node's vote or resolves the
\* block.
C31_InfoForwarding ==
    \A n \in Replicas : \A infos \in SeqsUpTo(BlockStoredInfos, 2) :
        LET self == node[n]
            buffer == self.last_block_stored_infos \o infos
            injected == Injected(self, infos)
            p == propose_block_with_last_info(injected)
        IN /\ injected = [self EXCEPT !.last_block_stored_infos = buffer]
           /\ injected.consensused = self.consensused
           /\ ForwardsInOrder(injected, buffer)
           /\ \A i \in 1..Len(p.data) :
                  is_current_block(self.consensused, p.data[i].item.info.block_num)
                      => LET r == received_commit(p.self, p.data[i])
                         IN \/ r.ret = Some("Block")
                            \/ self.peer_id \in Voters(r.self.consensused,
                                                      AccBlock(p.data[i].item.info))

\* The node injected an info and forwarded it: its Block proposal is pending
\* and in flight, the buffer is empty and no vote is recorded yet.
C31_Witness ==
    \E d \in raft_pending :
        /\ IsEntry(d, "Block")
        /\ d.key.proposer_id = SelfPeerId
        /\ d.key \in Keys(node[SelfPeerId].proposed_in_flight)
        /\ node[SelfPeerId].last_block_stored_infos = <<>>
        /\ is_current_block(Consensused(SelfPeerId), d.item.info.block_num)
        /\ Consensused(SelfPeerId).current_block_stored_info = EmptyMap

-----------------------------------------------------------------------------
(* C32: who writes the consensused fields.                                   *)

\* The step applies a committed entry to replica n.
AppliesCommit(n) ==
    \E d \in NextEntries :
        LET r == received_commit(node[n], d)
        IN ~r.panic /\ node'[n] = r.self /\ signal'[n] = r.ret

\* The step is the block assembly call that answers the signal of replica n.
AssemblesBlock(n) ==
    \/ /\ signal[n] = Some("FirstBlock")
       /\ node'[n].consensused = generate_first_block(node[n].consensused).c
    \/ /\ signal[n] = Some("Block")
       /\ node'[n].consensused = generate_block(node[n].consensused).c

\* The step hands the mining block of replica n out: current_block and
\* current_block_tx are emptied, outside any commit.
TakesMiningBlock(n) ==
    /\ signal[n] \notin {Some("FirstBlock"), Some("Block")}
    /\ IsSome(node[n].consensused.current_block)
    /\ node'[n] = [node[n] EXCEPT !.consensused = take_mining_block(@).c]
    /\ node'[n].consensused =
           [node[n].consensused EXCEPT !.current_block = None,
                                       !.current_block_tx = EmptyMap]

\* The local operations of a node leave `consensused` as it is.
LocalOperationsFrame(self) ==
    /\ \A transactions \in ClientBatches \cup ForeignBatches :
           append_to_tx_pool(self, transactions).consensused = self.consensused
    /\ \A transactions \in ClientDroplets \cup ForeignDroplets :
           append_to_tx_druid_pool(self, transactions).consensused = self.consensused
    /\ \A info \in BlockStoredInfos \cup {FutureInfo} :
           raft_append_block_stored_info(self, info).consensused = self.consensused
    /\ \A extra_len \in 0..MaxExtraLen : tx_pool_can_accept(self, extra_len) \in BOOLEAN
    /\ propose_local_transactions_at_timeout(self).self.consensused = self.consensused
    /\ propose_local_druid_transactions(self).self.consensused = self.consensused
    /\ propose_block_with_last_info(self).self.consensused = self.consensused

-----------------------------------------------------------------------------
(* C33: transactions in flight against proposed_tx_pool_len_max.             *)

\* C33: in every reachable state the number of this node's proposed
\* transactions in flight, proposed_tx_pool_len, is at most
\* proposed_tx_pool_len_max, also after several propose timeouts with no
\* commit in between.
C33_InFlightWithinMax ==
    \A n \in Replicas : node[n].proposed_tx_pool_len <= node[n].proposed_tx_pool_len_max

-----------------------------------------------------------------------------
(* C34: proposed and consensused transactions against their maximum.         *)

\* Batches other peers of the cluster may get committed.
PeerBatchHashes == {4, 5, 8}

\* The node as it is, and as it is once a batch of another peer is committed.
AfterPeerBatch(self) ==
    {self} \cup
    {received_commit(self, Serialize(ForeignKey(p, ItemTransactions(Batch(S))),
                                     ItemTransactions(Batch(S)))).self :
         p \in ForeignPeers, S \in (SUBSET PeerBatchHashes) \ {{}}}

\* proposed_tx_pool_len + |consensused.tx_pool|
InFlightAndConsensused(self) ==
    self.proposed_tx_pool_len + MapLen(self.consensused.tx_pool)

\* C34: for a node in a reachable state, as it is or after the commit of
\* another peer's batch, propose_local_transactions_at_timeout does nothing
\* (no proposal, no proposal id, local_tx_pool and proposed_tx_pool_len
\* unchanged) when proposed_tx_pool_len + |consensused.tx_pool| is at or above
\* proposed_and_consensused_tx_pool_len_max, and otherwise leaves the sum at
\* most the maximum; in both cases the transactions it takes from
\* local_tx_pool are those it adds to the sum. In a cluster of one the sum is
\* at most the maximum in every reachable state.
C34_ProposeWithinMax ==
    \A n \in Replicas :
        /\ \A self \in AfterPeerBatch(node[n]) :
               LET max == self.proposed_and_consensused_tx_pool_len_max
                   p == propose_local_transactions_at_timeout(self)
               IN /\ InFlightAndConsensused(self) >= max =>
                         /\ p.data = <<>>
                         /\ p.self.proposed_last_id = self.proposed_last_id
                         /\ p.self.local_tx_pool = self.local_tx_pool
                         /\ p.self.proposed_tx_pool_len = self.proposed_tx_pool_len
                         /\ p.self = self
                  /\ InFlightAndConsensused(self) < max =>
                         InFlightAndConsensused(p.self) <= max
                  /\ InFlightAndConsensused(p.self) - InFlightAndConsensused(self)
                         = MapLen(self.local_tx_pool) - MapLen(p.self.local_tx_pool)
        /\ compute_nodes = 1 =>
               InFlightAndConsensused(node[n])
                   <= node[n].proposed_and_consensused_tx_pool_len_max

\* A node without replication has two transactions consensused and two in
\* flight, which is the maximum, and two more staged: the timeout proposes
\* nothing.
C34_Witness ==
    LET self == node[SelfPeerId]
    IN /\ compute_nodes = 1
       /\ self.proposed_tx_pool_len > 0
       /\ self.consensused.tx_pool /= EmptyMap
       /\ InFlightAndConsensused(self) = self.proposed_and_consensused_tx_pool_len_max
       /\ self.local_tx_pool /= EmptyMap
       /\ propose_local_transactions_at_timeout(self).data = <<>>

\* The case above the maximum: the node holds staged transactions and, once a
\* batch of another peer is committed, more proposed and consensused
\* transactions than the maximum.
C34_AboveMax ==
    \E self \in AfterPeerBatch(node[SelfPeerId]) :
        /\ InFlightAndConsensused(self) > self.proposed_and_consensused_tx_pool_len_max
        /\ self.local_tx_pool /= EmptyMap

-----------------------------------------------------------------------------
(* C35: generate_block after a Block signal does not fail.                   *)

\* The passes of generate_block on the consensused state c, one after the other.
DropletPass(c) == update_committed_dde_tx(Assembly(c, NewBlock, EmptyMap, FALSE))
PoolPass(c) == update_current_block_tx(DropletPass(c))
HeaderPass(c) == update_block_header(PoolPass(c))

\* C35: whenever a replica holds a Block signal, tx_current_block_previous_hash
\* and tx_current_block_num are present and generate_block, called on the
\* state as the commits left it, completes: no utxo_set.remove(..).unwrap() of
\* the droplet pass or of the pool pass and no unwrap() of the header fails.
\* The call consumes the signal, so it runs once per Block signal.
C35_GenerateBlockNeverFails ==
    \A n \in Replicas :
        signal[n] = Some("Block") =>
            LET c == Consensused(n)
            IN /\ IsSome(c.tx_current_block_previous_hash)
               /\ IsSome(c.tx_current_block_num)
               /\ ~DropletPass(c).panic
               /\ ~PoolPass(c).panic
               /\ ~HeaderPass(c).panic
               /\ ~generate_block(c).panic
               /\ IsNone(generate_block(c).c.tx_current_block_previous_hash)

\* The Block signal is pending with a droplet to admit and a committed
\* transaction that the droplet invalidates or that spends a missing output.
C35_Witness ==
    LET c == Consensused(SelfPeerId)
    IN /\ signal[SelfPeerId] = Some("Block")
       /\ ~panicked[SelfPeerId]
       /\ c.tx_druid_pool /= <<>>
       /\ DropletPass(c).block.transactions /= <<>>
       /\ find_invalid_new_txs(DropletPass(c).c.utxo_set, c.tx_pool) /= <<>>
       /\ IsSome(generate_block(c).c.current_block)

-----------------------------------------------------------------------------
(* C36: the payload a resolving vote applies.                                *)

\* The digests of the accumulator from the highest to the lowest.
DescendingKeys(m) ==
    LET keys == SortedKeys(m) IN [i \in 1..Len(keys) |-> keys[Len(keys) + 1 - i]]

\* The accumulator of c once the vote d is recorded.
Recorded(c, d) == append_current_block_stored_info(c, d.key, VotePayload(d))

\* The payloads of c with the most votes.
MostVoted(c) ==
    {p \in Payloads(c) :
        \A q \in Payloads(c) : Cardinality(Voters(c, p)) >= Cardinality(Voters(c, q))}

\* C36: when the commit of a vote returns the FirstBlock or Block signal, the
\* accumulator with that vote recorded holds the vote's payload with exactly
\* the threshold of distinct proposers and every other payload with fewer, so
\* the vote's payload is the only one with the most votes;
\* take_ready_block_stored_info takes it whether the digests are visited in
\* ascending or in descending order, and it is the payload applied to the
\* consensused state.
C36_ResolvedPayload ==
    \A n \in Replicas : \A d \in NextEntries :
        LET c == Consensused(n)
            r == received_commit(node[n], d)
        IN (d.bytes = "pair" /\ r.ret \in {Some("FirstBlock"), Some("Block")}) =>
               LET payload == VotePayload(d)
                   acc == Recorded(c, d)
                   infos == acc.current_block_stored_info
                   after == r.self.consensused
               IN /\ IsCurrentVote(c, d)
                  /\ Cardinality(Voters(acc, payload)) = Threshold(c)
                  /\ \A q \in Payloads(acc) \ {payload} :
                         Cardinality(Voters(acc, q)) < Threshold(c)
                  /\ MostVoted(acc) = {payload}
                  /\ take_ready_block_stored_info(acc).info = Some(payload)
                  /\ Unwrap(MaxByVotes(infos, SortedKeys(infos), None)).info = payload
                  /\ Unwrap(MaxByVotes(infos, DescendingKeys(infos), None)).info = payload
                  /\ after = apply_ready_block_stored_info(acc).c
                  /\ IF payload.type = "FirstBlock"
                     THEN /\ r.ret = Some("FirstBlock")
                          /\ after.utxo_set = payload.utxo_set
                     ELSE /\ r.ret = Some("Block")
                          /\ after.tx_current_block_previous_hash
                                 = Some(payload.info.block_hash)
                          /\ after.utxo_set
                                 = MapAppend(c.utxo_set, payload.info.mining_transactions)

\* In a cluster of three another payload is recorded with one vote, under a
\* lower and under a higher digest than the payload of the vote about to be
\* committed, which resolves the block.
C36_Witness ==
    LET c == Consensused(SelfPeerId)
    IN /\ compute_nodes = 3
       /\ \E d \in NextEntries :
              /\ IsEntry(d, "Block")
              /\ received_commit(node[SelfPeerId], d).ret = Some("Block")
              /\ \E k \in Keys(c.current_block_stored_info) :
                     /\ k > VoteDigest(VotePayload(d))
                     /\ c.current_block_stored_info[k].info /= VotePayload(d)
       /\ \E d \in NextEntries :
              /\ IsEntry(d, "Block")
              /\ received_commit(node[SelfPeerId], d).ret = Some("Block")
              /\ \E k \in Keys(c.current_block_stored_info) :
                     /\ k < VoteDigest(VotePayload(d))
                     /\ c.current_block_stored_info[k].info /= VotePayload(d)

-----------------------------------------------------------------------------
(* C37: the progression of the block number.                                 *)

\* The votes any peer of the cluster may get committed while the node is in
\* the phase of c: FirstBlock votes, and Block votes for the block before the
\* current one, the current one and the next.
VoteEntries(c) ==
    LET nums == IF IsNone(c.tx_current_block_num) THEN {0, 1}
                ELSE {x \in (Unwrap(c.tx_current_block_num) - 1)
                                ..(Unwrap(c.tx_current_block_num) + 1) : x >= 0}
    IN {Serialize(RaftKey(p, 1), ItemFirstBlock(SeedUtxoSet(s))) :
            p \in 1..compute_nodes, s \in SeedChoices}
       \cup {Serialize(RaftKey(p, 2),
                       ItemBlock([block_hash |-> h, block_num |-> x,
                                  mining_transactions |-> MiningTransactions(h)])) :
                p \in 1..compute_nodes, h \in BlockHashes, x \in nums}

\* What a commit that returned `ret` may have done to the block number.
Progression(c, ret, after) ==
    /\ IsSome(c.tx_current_block_num) => IsSome(after.tx_current_block_num)
    /\ ret = Some("FirstBlock") =>
           IsNone(c.tx_current_block_num) /\ after.tx_current_block_num = Some(0)
    /\ ret = Some("Block") =>
           /\ IsSome(c.tx_current_block_num)
           /\ after.tx_current_block_num = Some(Unwrap(c.tx_current_block_num) + 1)
    /\ ret \notin {Some("FirstBlock"), Some("Block")} =>
           after.tx_current_block_num = c.tx_current_block_num

\* The block of c, if any, is numbered below the block a Block signal lets
\* generate_block produce next, and no later than the current block number.
HeaderBelow(c, ret, after) ==
    /\ IsSome(c.current_block) =>
           /\ IsSome(c.tx_current_block_num)
           /\ Unwrap(c.current_block).header.b_num <= Unwrap(c.tx_current_block_num)
    /\ ret = Some("Block") =>
           LET g == generate_block(after)
           IN /\ ~g.panic
              /\ Unwrap(g.c.current_block).header.b_num
                     = Unwrap(after.tx_current_block_num)
              /\ IsSome(c.current_block) =>
                     Unwrap(c.current_block).header.b_num
                         < Unwrap(g.c.current_block).header.b_num

\* Every vote that may be committed moves the block number of `self` as
\* Progression says.
CommitsProgress(self) ==
    \A d \in VoteEntries(self.consensused) :
        LET r == received_commit(self, d)
        IN ~r.panic =>
               /\ Progression(self.consensused, r.ret, r.self.consensused)
               /\ HeaderBelow(self.consensused, r.ret, r.self.consensused)

\* The step of replica n returned the signal `s` from a commit.
Signalled(n, s) == signal'[n] = Some(s) /\ signal[n] /= Some(s)

\* C37: tx_current_block_num is absent until a commit returns the FirstBlock
\* signal and is 0 with it; once present it is never absent again, never
\* decreases, and changes only in a commit that returns the Block signal,
\* which adds exactly 1 (so a FirstBlock payload is applied once at most and
\* one Block payload at most for each block number); the block generate_block
\* stores after a Block signal is numbered tx_current_block_num, above the
\* number of the block stored before it. This holds for the steps of the run
\* and, once the node is past the blocks the reports of the run are for, for
\* every vote for the previous, the current and the next block that could
\* then be committed.
C37_BlockNumberProgression ==
    [][\A n \in Replicas :
          LET c == node[n].consensused
              after == node'[n].consensused
              b == c.tx_current_block_num
          IN /\ IsSome(b) /\ Unwrap(b) > MaxBlockNum => CommitsProgress(node[n])
             /\ IsSome(b) =>
                    /\ IsSome(after.tx_current_block_num)
                    /\ Unwrap(after.tx_current_block_num) >= Unwrap(b)
             /\ after.tx_current_block_num /= b =>
                    IF IsNone(b)
                    THEN after.tx_current_block_num = Some(0) /\ Signalled(n, "FirstBlock")
                    ELSE /\ after.tx_current_block_num = Some(Unwrap(b) + 1)
                         /\ Signalled(n, "Block")
             /\ Signalled(n, "FirstBlock") =>
                    IsNone(b) /\ after.tx_current_block_num = Some(0)
             /\ Signalled(n, "Block") =>
                    IsSome(b) /\ after.tx_current_block_num = Some(Unwrap(b) + 1)
             /\ (signal[n] = Some("Block") /\ signal'[n] = None /\ ~panicked'[n]) =>
                    /\ IsSome(after.current_block)
                    /\ Unwrap(after.current_block).header.b_num = Unwrap(b)
                    /\ IsSome(c.current_block) =>
                           Unwrap(c.current_block).header.b_num < Unwrap(b)]_vars

\* Block 1 was generated on top of the first block, which the node still
\* held: the number went from absent to 0 to 1 and the header says 1; a vote
\* for block 1 would now resolve it and let generate_block number the next
\* block 2.
C37_Witness ==
    LET c == Consensused(SelfPeerId)
    IN /\ c.tx_current_block_num = Some(1)
       /\ signal[SelfPeerId] = None
       /\ IsSome(c.current_block)
       /\ Unwrap(c.current_block).header.b_num = 1
       /\ Unwrap(c.current_block).header.previous_hash /= None
       /\ \E d \in VoteEntries(c) :
              LET r == received_commit(node[SelfPeerId], d)
              IN /\ r.ret = Some("Block")
                 /\ r.self.consensused.tx_current_block_num = Some(2)
                 /\ Unwrap(generate_block(r.self.consensused).c.current_block).header.b_num = 2

-----------------------------------------------------------------------------
(* C38: the transaction list of the block against current_block_tx.          *)

\* Droplets that hold transaction 6, which has no input, and 7, which spends it.
ListedDroplets == {Batch({6}), Batch({7}), Batch({6, 7})}

\* generate_block(&mut self) right after a Block signal, as InitAssembly, with
\* the same transactions committed in droplets and in Transactions batches.
InitListing ==
    /\ NoCluster
    /\ \E utxo \in SUBSET (SeedUtxo \cup {6}) :
       \E pool \in SUBSET {6, 7, 8} :
       \E droplets \in SeqsUpTo(ListedDroplets, MaxDroplets) :
           arg = Some([NewConsensused(1) EXCEPT
                          !.utxo_set = [h \in utxo |-> IF h \in DOMAIN TxCatalogue
                                                       THEN TxCatalogue[h]
                                                       ELSE NewTransaction],
                          !.tx_pool = Batch(pool),
                          !.tx_druid_pool = droplets,
                          !.tx_current_block_previous_hash = Some(1),
                          !.tx_current_block_num = Some(1)])
    /\ out = None

NextListing == GenerateBlockCall

SpecListing == InitListing /\ [][NextListing]_vars

\* The hashes of the applied droplets among the first i, in droplet order and
\* in key order within a droplet.
RECURSIVE AdmittedList(_)
AdmittedList(i) ==
    IF i = 0 THEN <<>>
    ELSE IF Reported(i) THEN AdmittedList(i - 1)
         ELSE AdmittedList(i - 1) \o SortedKeys(Droplets[i])

\* The list generate_block builds: the applied droplets, then the selected
\* tx_pool transactions in ascending hash order.
ExpectedList == AdmittedList(Len(Droplets)) \o SortedSeq(SelectedPool)

\* After generate_block the transaction list of current_block is the applied
\* droplets' hashes in droplet order followed by the selected pool hashes in
\* ascending order, and its hashes are the keys of current_block_tx.
C38_ListOrder ==
    Returned =>
        LET after == Unwrap(out).c
        IN /\ ~Unwrap(out).panic
           /\ Unwrap(after.current_block).transactions = ExpectedList
           /\ Range(ExpectedList) = Keys(after.current_block_tx)

\* C38: after generate_block the transaction list of current_block holds
\* every key of current_block_tx exactly once and nothing else, its length
\* being |current_block_tx|, with the droplet transactions first in droplet
\* order and then the selected pool transactions in ascending hash order.
C38_ListsEachKeyOnce ==
    Returned =>
        LET after == Unwrap(out).c
            transactions == Unwrap(after.current_block).transactions
        IN /\ Range(transactions) = Keys(after.current_block_tx)
           /\ Len(transactions) = MapLen(after.current_block_tx)
           /\ Distinct(transactions)
           /\ transactions = ExpectedList

-----------------------------------------------------------------------------
(* C39: what generate_block leaves in tx_pool.                               *)

\* C39: after generate_block every transaction left in tx_pool has all its
\* inputs among the keys of utxo_set and no two of them have an input in
\* common; find_invalid_new_txs reports none of them against the utxo_set the
\* call leaves.
C39_LeftoverSpendable ==
    Returned =>
        LET after == Unwrap(out).c
            left == after.tx_pool
        IN /\ ~Unwrap(out).panic
           /\ Keys(left) \subseteq Keys(Unwrap(arg).tx_pool)
           /\ \A h \in Keys(left) : Range(left[h].inputs) \subseteq Keys(after.utxo_set)
           /\ \A h \in Keys(left) : \A k \in Keys(left) :
                  h /= k => Range(left[h].inputs) \cap Range(left[k].inputs) = {}
           /\ find_invalid_new_txs(after.utxo_set, left) = <<>>

\* Of the committed transactions 4 to 8, 5 is pruned (4 spends output 2
\* first), 4 and 6 fill the block, and 7 and 8 stay in tx_pool with their
\* inputs 6 and 3 unspent.
C39_Witness ==
    /\ Returned
    /\ Keys(Unwrap(arg).tx_pool) = {4, 5, 6, 7, 8}
    /\ Keys(Unwrap(out).c.tx_pool) = {7, 8}
    /\ Unwrap(Unwrap(out).c.current_block).transactions = <<4, 6>>
    /\ {3, 6} \subseteq Keys(Unwrap(out).c.utxo_set)

=============================================================================
